---------------------------- MODULE Spec2Model ----------------------------
(***************************************************************************)
(* Model of the serverless AI content pipeline:                            *)
(*   - the ingestion pipeline   (FetchNewsUseCase),                        *)
(*   - the embedding pipeline   (ProcessNewsEmbeddingsUseCase),            *)
(*   - the retrieval-generation orchestrator (generate-newsletter handler).*)
(* Every await of the source is one step of the model; the external        *)
(* services (news API, S3, Bedrock, Pinecone, SES) answer or fail          *)
(* nondeterministically.                                                   *)
(***************************************************************************)
EXTENDS Integers, Sequences, FiniteSets, TLC

VARIABLES
    bucket,     \* S3 bucket: object key -> body
    now,        \* last value read from the clock (Date.now())
    run,        \* ingestion runs: run id -> local state of FetchNewsUseCase.execute
    index,      \* Pinecone index: set of vector records, at most one per id
    inv,        \* embedding invocations: id -> local state of ProcessNewsEmbeddingsUseCase.execute
    orch,       \* the orchestrator invocation: local state of the generate-newsletter handler
    rag,        \* the storage-event handler: local state of processNewsRagHandler
    hist,       \* history of the external calls made (for stating the properties)
    loop        \* the tool-calling loop: local state of executeWithFunctionCalling

vars == <<bucket, now, run, index, inv, orch, rag, hist, loop>>

(***************************************************************************)
(* Bounds of the model                                                     *)
(***************************************************************************)
MaxFetched == 2      \* longest article list the news API returns in the model
MaxClock == 1        \* largest clock reading
MaxBatch == 3        \* longest batch blob handed to the embedding pipeline
MaxPair == 2         \* longest batch blob when two invocations are modelled
MaxFreeLen == 3      \* longest unstructured generation output
MaxSubjLen == 2      \* longest subject text of a formatted generation output
MaxBodyLen == 2      \* longest body text of a formatted generation output
MaxHits == 2         \* most search results returned in the model
MaxOver == 2         \* SpecLong: longest excess of a batch over MAX_ARTICLES
MaxLongFailures == 1 \* SpecLong: most failed embedding calls of an invocation
MaxRecords == 2      \* most records of one storage event
CapSlack == 2        \* SpecCap starts with caches at most this far below the cap
MaxRequested == 101  \* SpecSearch: the largest maxArticles of a request
MaxInputs == 1       \* SpecTools: the number of inputs a tool is called with
MaxBlocks == 1       \* SpecTools: most content blocks of an assistant message

Urls == {1, 2}
Titles == {"t1", "t2"}
Runs == {"r1", "r2"}

Range(s) == {s[i] : i \in 1..Len(s)}
Min(a, b) == IF a <= b THEN a ELSE b
SeqsUpTo(S, n) == UNION {[1..k -> S] : k \in 0..n}
InSeq(x, s) == \E i \in 1..Len(s) : s[i] = x

\* NewsArticle: url is the deduplication key, title stands for the other fields
NewsArticle == [url : Urls, title : Titles]

\* the articles the news API serves in the model: one url comes in two versions
Feed == {a \in NewsArticle : a.url = 1 \/ a.title = "t1"}

(***************************************************************************)
(* Blob store (S3BucketProvider)                                           *)
(***************************************************************************)
CacheKey == <<"processed-urls-cache.json">>
NewsKey(t) == <<"news-", t, ".json">>

\* JSON.stringify(data) as stored by uploadJson; JSON.parse gives the data back
JSONstringify(data) == [valid |-> TRUE, isArray |-> TRUE, items |-> data]

uploadJson(b, data, filename) ==
    [k \in DOMAIN b \cup {filename} |-> IF k = filename THEN JSONstringify(data) ELSE b[k]]

(***************************************************************************)
(* Ingestion pipeline: FetchNewsUseCase                                    *)
(***************************************************************************)
CACHE_LIMIT == 10000

\* createHash('sha256').update(url).digest('hex').substring(0, 16):
\* a digest that depends on the url alone, without collisions on Urls
generateUrlHash(url) == <<"sha256/16", url>>

\* new Set(array): insertion-ordered, duplicates dropped (first occurrence kept)
RECURSIVE Dedup(_, _)
Dedup(s, acc) ==
    IF s = <<>> THEN acc
    ELSE Dedup(Tail(s), IF InSeq(Head(s), acc) THEN acc ELSE Append(acc, Head(s)))
NewSet(array) == IF Cardinality(Range(array)) = Len(array) THEN array ELSE Dedup(array, <<>>)

\* a variant for which a cache that cannot be read has seen every url
getProcessedUrlsCache_allSeen(b, fault) ==
    IF fault \/ CacheKey \notin DOMAIN b
    THEN SubSeq([u \in 1..Cardinality(Urls) |-> generateUrlHash(u)], 1, Cardinality(Urls))
    ELSE IF ~b[CacheKey].valid THEN <<>>
    ELSE NewSet(b[CacheKey].items)

\* getProcessedUrlsCache: any failure of getObject or JSON.parse gives the empty set
getProcessedUrlsCache(b, fault) ==
    IF fault \/ CacheKey \notin DOMAIN b THEN <<>>
    ELSE IF ~b[CacheKey].valid THEN <<>>
    ELSE NewSet(b[CacheKey].items)

\* a variant that takes the whole list
SliceFirst_all(s, n) == s

\* news.articles.slice(0, pageSize)
SliceFirst(s, n) == SubSeq(s, 1, Min(n, Len(s)))

\* urlArray.slice(-10000)
SliceLast(s, n) == IF Len(s) <= n THEN s ELSE SubSeq(s, Len(s) - n + 1, Len(s))

filterNewArticlesWithCache_noCache(articles, processedUrls) == articles

\* a variant that collects the new articles in reverse order
filterNewArticlesWithCache_reversed(articles, processedUrls) ==
    LET kept == SelectSeq(articles, LAMBDA a : ~InSeq(generateUrlHash(a.url), processedUrls))
    IN SubSeq([i \in 1..Len(kept) |-> kept[Len(kept) + 1 - i]], 1, Len(kept))

filterNewArticlesWithCache(articles, processedUrls) ==
    SelectSeq(articles, LAMBDA a : ~InSeq(generateUrlHash(a.url), processedUrls))

\* articles.forEach(article => processedUrls.add(hash)) on an insertion-ordered set
RECURSIVE AddHashes(_, _)
AddHashes(processedUrls, articles) ==
    IF articles = <<>> THEN processedUrls
    ELSE LET h == generateUrlHash(Head(articles).url)
         IN AddHashes(IF InSeq(h, processedUrls) THEN processedUrls
                      ELSE Append(processedUrls, h), Tail(articles))

limitedUrls_keepOldest(processedUrls) == SliceFirst(processedUrls, CACHE_LIMIT)

limitedUrls(processedUrls) == SliceLast(processedUrls, CACHE_LIMIT)

RunIdle ==
    [pc |-> "idle", pageSize |-> 0, limited |-> <<>>,
     newArticles |-> <<>>, processedUrls |-> <<>>, outcome |-> "none",
     batchKey |-> <<>>, cacheFault |-> FALSE, predDone |-> {},
     cacheLenAtEnd |-> 0,
     \* what the run has observed and done, kept for the statements below:
     \* the hashes in the persisted cache when execute was called, whether
     \* the cache blob was missing and whether its read failed when the
     \* candidates were filtered, whether the hash of every candidate was in
     \* the persisted cache at that moment, the number of uploadJson calls issued,
     \* and the call that made execute reject
     cacheAtStart |-> {}, missingAtFilter |-> FALSE, filterFault |-> FALSE,
     allKnownAtFilter |-> FALSE, puts |-> 0, failedAt |-> "none",
     \* the number of searchNews calls issued
     fetches |-> 0]

RunActive(r) == run[r].pc \notin {"idle", "done", "failed"}
RunOver(r) == run[r].pc \in {"done", "failed"}

CacheItems(b) == IF CacheKey \in DOMAIN b THEN b[CacheKey].items ELSE <<>>
BatchKeys(b) == DOMAIN b \ {CacheKey}

\* execute is invoked with the (validated) pageSize of the request
StartRun(r) ==
    /\ run[r].pc = "idle"
    /\ \E ps \in 1..MaxFetched :
         run' = [run EXCEPT ![r] = [@ EXCEPT !.pc = "fetch", !.pageSize = ps, !.fetches = @ + 1,
                                      !.cacheAtStart = Range(CacheItems(bucket)),
                                      !.predDone = {q \in Runs : RunOver(q)}]]
    /\ UNCHANGED <<bucket, now, index, inv, orch, rag, hist, loop>>

\* newsProvider.searchNews answers; slice(0, pageSize)
FetchOk(r) ==
    /\ run[r].pc = "fetch"
    /\ \E articles \in SeqsUpTo(Feed, MaxFetched) :
         run' = [run EXCEPT ![r] = [@ EXCEPT !.pc = "filter",
                                      !.limited = SliceFirst(articles, run[r].pageSize)]]
    /\ UNCHANGED <<bucket, now, index, inv, orch, rag, hist, loop>>

\* a variant that takes a failed search for an empty page
FetchFail_swallowed(r) ==
    /\ run[r].pc = "fetch"
    /\ run' = [run EXCEPT ![r] = [@ EXCEPT !.pc = "filter", !.limited = <<>>,
                                   !.failedAt = "searchNews"]]
    /\ UNCHANGED <<bucket, now, index, inv, orch, rag, hist, loop>>

\* newsProvider.searchNews throws: execute rejects
FetchFail(r) ==
    /\ run[r].pc = "fetch"
    /\ run' = [run EXCEPT ![r] = [@ EXCEPT !.pc = "failed", !.outcome = "threw",
                                   !.failedAt = "searchNews",
                                   !.cacheLenAtEnd = Len(CacheItems(bucket))]]
    /\ UNCHANGED <<bucket, now, index, inv, orch, rag, hist, loop>>

\* a variant without the early return: an empty batch is uploaded as well
FilterNew_noEarlyReturn(r) ==
    /\ run[r].pc = "filter"
    /\ \E fault \in BOOLEAN :
       \E cached \in {getProcessedUrlsCache(bucket, fault)} :
       \E fresh \in {filterNewArticlesWithCache(run[r].limited, cached)} :
          run' = [run EXCEPT ![r] =
                [@ EXCEPT !.newArticles = fresh,
                          !.cacheFault = @ \/ (fault /\ CacheKey \in DOMAIN bucket),
                          !.filterFault = fault /\ CacheKey \in DOMAIN bucket,
                          !.missingAtFilter = CacheKey \notin DOMAIN bucket,
                          !.allKnownAtFilter =
                              \A i \in 1..Len(run[r].limited) :
                                 InSeq(generateUrlHash(run[r].limited[i].url),
                                       CacheItems(bucket)),
                          !.puts = @ + 1,
                          !.pc = "upload",
                          !.cacheLenAtEnd = Len(CacheItems(bucket))]]
    /\ UNCHANGED <<bucket, now, index, inv, orch, rag, hist, loop>>

\* filterNewArticlesWithCache and the early return when nothing is new
FilterNew(r) ==
    /\ run[r].pc = "filter"
    /\ \E fault \in BOOLEAN :
       \E cached \in {getProcessedUrlsCache(bucket, fault)} :
       \E fresh \in {filterNewArticlesWithCache(run[r].limited, cached)} :
          run' = [run EXCEPT ![r] =
                [@ EXCEPT !.newArticles = fresh,
                          !.cacheFault = @ \/ (fault /\ CacheKey \in DOMAIN bucket),
                          !.filterFault = fault /\ CacheKey \in DOMAIN bucket,
                          !.missingAtFilter = CacheKey \notin DOMAIN bucket,
                          !.allKnownAtFilter =
                              \A i \in 1..Len(run[r].limited) :
                                 InSeq(generateUrlHash(run[r].limited[i].url),
                                       CacheItems(bucket)),
                          !.puts = IF Len(fresh) = 0 THEN @ ELSE @ + 1,
                          !.pc = IF Len(fresh) = 0 THEN "done" ELSE "upload",
                          !.outcome = IF Len(fresh) = 0 THEN "ok" ELSE @,
                          !.cacheLenAtEnd = Len(CacheItems(bucket))]]
    /\ UNCHANGED <<bucket, now, index, inv, orch, rag, hist, loop>>

\* bucketProvider.uploadJson(newArticles, `news-${Date.now()}.json`) succeeds
UploadBatchOk(r) ==
    /\ run[r].pc = "upload"
    /\ \E t \in now..MaxClock :
         /\ now' = t
         /\ bucket' = uploadJson(bucket, run[r].newArticles, NewsKey(t))
         /\ run' = [run EXCEPT ![r] = [@ EXCEPT !.pc = "cacheRead", !.batchKey = NewsKey(t)]]
    /\ UNCHANGED <<index, inv, orch, rag, hist, loop>>

\* a variant that logs the failed batch upload and goes on to the cache update
UploadBatchFail_swallowed(r) ==
    /\ run[r].pc = "upload"
    /\ run' = [run EXCEPT ![r] = [@ EXCEPT !.pc = "cacheRead"]]
    /\ UNCHANGED <<bucket, now, index, inv, orch, rag, hist, loop>>

\* bucketProvider.uploadJson of the batch throws: execute rejects
UploadBatchFail(r) ==
    /\ run[r].pc = "upload"
    /\ run' = [run EXCEPT ![r] = [@ EXCEPT !.pc = "failed", !.outcome = "threw",
                                   !.failedAt = "uploadJson",
                                   !.cacheLenAtEnd = Len(CacheItems(bucket))]]
    /\ UNCHANGED <<bucket, now, index, inv, orch, rag, hist, loop>>

\* updateProcessedUrlsCache, up to its uploadJson: read the cache again, add, slice
CacheRead(r) ==
    /\ run[r].pc = "cacheRead"
    /\ \E fault \in BOOLEAN :
       \E cached \in {getProcessedUrlsCache(bucket, fault)} :
       \E urlArray \in {AddHashes(cached, run[r].newArticles)} :
          run' = [run EXCEPT ![r] =
            [@ EXCEPT !.pc = "cacheWrite", !.puts = @ + 1,
                      !.cacheFault = @ \/ (fault /\ CacheKey \in DOMAIN bucket),
                      !.processedUrls = limitedUrls(urlArray)]]
    /\ UNCHANGED <<bucket, now, index, inv, orch, rag, hist, loop>>

\* updateProcessedUrlsCache: uploadJson(limitedUrls, 'processed-urls-cache.json') succeeds
CacheWriteOk(r) ==
    /\ run[r].pc = "cacheWrite"
    /\ bucket' = uploadJson(bucket, run[r].processedUrls, CacheKey)
    /\ run' = [run EXCEPT ![r] = [@ EXCEPT !.pc = "done", !.outcome = "ok",
                                   !.processedUrls = <<>>,
                                   !.cacheLenAtEnd = Len(run[r].processedUrls)]]
    /\ UNCHANGED <<now, index, inv, orch, rag, hist, loop>>

\* a variant in which the failed upload of the cache makes execute reject
CacheWriteFail_rethrown(r) ==
    /\ run[r].pc = "cacheWrite"
    /\ run' = [run EXCEPT ![r] = [@ EXCEPT !.pc = "failed", !.outcome = "threw",
                                   !.processedUrls = <<>>, !.cacheFault = TRUE,
                                   !.cacheLenAtEnd = Len(CacheItems(bucket))]]
    /\ UNCHANGED <<bucket, now, index, inv, orch, rag, hist, loop>>

\* updateProcessedUrlsCache: the upload throws, the catch block logs and swallows
CacheWriteFail(r) ==
    /\ run[r].pc = "cacheWrite"
    /\ run' = [run EXCEPT ![r] = [@ EXCEPT !.pc = "done", !.outcome = "ok",
                                   !.processedUrls = <<>>, !.cacheFault = TRUE,
                                   !.cacheLenAtEnd = Len(CacheItems(bucket))]]
    /\ UNCHANGED <<bucket, now, index, inv, orch, rag, hist, loop>>

IngestStep(r) ==
    \/ StartRun(r)
    \/ FetchOk(r)
    \/ FetchFail(r)
    \/ FilterNew(r)
    \/ UploadBatchOk(r)
    \/ UploadBatchFail(r)
    \/ CacheRead(r)
    \/ CacheWriteOk(r)
    \/ CacheWriteFail(r)


(***************************************************************************)
(* Vector index (PineconeVectorRepository)                                 *)
(***************************************************************************)
\* index.upsert(vectors): insert or replace by id, in the order of the request
\* a variant in which an upsert replaces the content of the index
upsert_replaceAll(idx, vectors) == Range(vectors)

RECURSIVE upsert(_, _)
upsert(idx, vectors) ==
    IF vectors = <<>> THEN idx
    ELSE upsert({r \in idx : r.id # Head(vectors).id} \cup {Head(vectors)}, Tail(vectors))

(***************************************************************************)
(* Embedding pipeline: ProcessNewsEmbeddingsUseCase                        *)
(***************************************************************************)
MAX_ARTICLES == 50
CONCURRENCY == 2
MAX_RETRIES == 2

Invs == {"i1", "i2"}

NoArticlesError == "No articles were successfully processed for embeddings"
InvalidJsonError == "Invalid JSON format in S3 file"
NotArrayError == "Expected array of articles, got: object"
GetObjectError == "Failed to get object from S3"
UpsertError == "Failed to upsert vectors to Pinecone index ai-content-pipe"

\* generateUniqueVectorId: `article-${sha256(article.url).substring(0, 16)}`
generateUniqueVectorId(article) == <<"article-", generateUrlHash(article.url)>>

vectorId_byPosition(article, objectKey, articleIndex) == <<objectKey, "-", articleIndex>>

\* const vectorId = this.generateUniqueVectorId(article), for the article at
\* articleIndex of the batch objectKey
vectorId(article, objectKey, articleIndex) == generateUniqueVectorId(article)

\* the text sent to the embedding model is built from the article's text fields
textToEmbed(article) == <<article.title>>

\* createIndex({name: 'ai-content-pipe', dimension: 1536, ...})
INDEX_DIMENSION == 1536

\* the lengths an embedding may come with: that of the index, and one that differs
Dimensions == {INDEX_DIMENSION, INDEX_DIMENSION - 1}

\* the vector Bedrock returns for a text (Titan v1: as long as the index requires)
Embedding(text) == [of |-> text, length |-> INDEX_DIMENSION]

\* the VectorRecord returned by a task of processArticlesConcurrently
VectorRecord(article, objectKey, articleIndex) ==
    [id |-> vectorId(article, objectKey, articleIndex),
     values |-> Embedding(textToEmbed(article)),
     metadata |-> [title |-> article.title, url |-> article.url]]

InvIdle ==
    [pc |-> "idle", objectKey |-> <<>>, articles |-> <<>>, i |-> 0, tasks |-> <<>>,
     vectors |-> <<>>, error |-> "", calls |-> 0, failedCalls |-> 0, failedDocs |-> 0,
     upserts |-> <<>>,
     \* per position of articles, kept for the statements below: the number of
     \* embedding calls made for the document and how far its task has come
     \* ("waiting", "calling", "fulfilled", "dropped")
     docs |-> <<>>]

InvOver(k) == inv[k].pc \in {"done", "failed"}

RagIdle ==
    [pc |-> "idle", records |-> <<>>, i |-> 0, results |-> <<>>, keyFetched |-> FALSE,
     error |-> [message |-> "", count |-> 0]]

\* batch = articles.slice(i, i + concurrency); every task runs up to its first
\* embedding call
Launch(st, i) ==
    LET n == Min(CONCURRENCY, Len(st.articles) - i)
    IN [st EXCEPT !.i = i, !.tasks = [j \in 1..n |-> [st |-> "calling", attempt |-> 1,
                                                 length |-> 0]],
                  !.docs = SubSeq([p \in 1..Len(st.articles) |->
                                     IF p \in (i + 1)..(i + n)
                                     THEN [attempts |-> 1, st |-> "calling"]
                                     ELSE IF p \in DOMAIN st.docs THEN st.docs[p]
                                     ELSE [attempts |-> 0, st |-> "waiting"]],
                                  1, Len(st.articles)),
                  !.calls = @ + n]

\* a variant that pushes a vector for every task, also for one that returned null
RECURSIVE Fulfilled_all(_, _)
Fulfilled_all(st, j) ==
    IF j > Len(st.tasks) THEN <<>>
    ELSE <<VectorRecord(st.articles[st.i + j], st.objectKey, st.i + j - 1)>>
         \o Fulfilled_all(st, j + 1)

\* batchResults.forEach: the fulfilled, non-null values are pushed in batch order
RECURSIVE Fulfilled(_, _)
Fulfilled(st, j) ==
    IF j > Len(st.tasks) THEN <<>>
    ELSE (IF st.tasks[j].st = "fulfilled"
          THEN <<[VectorRecord(st.articles[st.i + j], st.objectKey, st.i + j - 1)
                     EXCEPT !.values.length = st.tasks[j].length]>>
          ELSE <<>>) \o Fulfilled(st, j + 1)

\* a variant that abandons the invocation as soon as one document has no vector
AfterSettle_allOrNothing(st) ==
    LET vs == st.vectors \o Fulfilled(st, 1)
        next == st.i + CONCURRENCY
        got == [st EXCEPT !.vectors = vs, !.tasks = <<>>]
    IN IF \E j \in 1..Len(st.tasks) : st.tasks[j].st = "null"
       THEN [got EXCEPT !.pc = "failed", !.error = NoArticlesError]
       ELSE IF next < Len(st.articles) THEN Launch(got, next)
       ELSE [got EXCEPT !.pc = "upsert", !.upserts = Append(@, vs)]

\* a variant that does not require at least one vector to be produced
AfterSettle_upsertEmpty(st) ==
    LET vs == st.vectors \o Fulfilled(st, 1)
        next == st.i + CONCURRENCY
        got == [st EXCEPT !.vectors = vs, !.tasks = <<>>]
    IN IF next < Len(st.articles) THEN Launch(got, next)
       ELSE [got EXCEPT !.pc = "upsert", !.upserts = Append(@, vs)]

\* a variant that calls upsert with the vectors of the first group
AfterSettle_earlyUpsert(st) ==
    LET vs == st.vectors \o Fulfilled(st, 1)
        got == [st EXCEPT !.vectors = vs, !.tasks = <<>>]
    IN IF Len(vs) = 0 THEN [got EXCEPT !.pc = "failed", !.error = NoArticlesError]
       ELSE [got EXCEPT !.pc = "upsert", !.upserts = Append(@, vs)]

\* a variant in which the loop does not go on after a group has settled
AfterSettle_stall(st) == st

\* what execute does once Promise.allSettled of a group has resolved: collect, start
\* the next group, or leave the loop and throw or call upsert
AfterSettle(st) ==
    LET vs == st.vectors \o Fulfilled(st, 1)
        next == st.i + CONCURRENCY
        got == [st EXCEPT !.vectors = vs, !.tasks = <<>>]
    IN IF next < Len(st.articles) THEN Launch(got, next)
       ELSE IF Len(vs) = 0 THEN [got EXCEPT !.pc = "failed", !.error = NoArticlesError]
       ELSE [got EXCEPT !.pc = "upsert", !.upserts = Append(@, vs)]

Settled(tasks) == \A j \in 1..Len(tasks) : tasks[j].st \in {"fulfilled", "null"}

\* a variant that goes on as soon as one task of the group has settled
Continue_eager(st) ==
    IF \E j \in 1..Len(st.tasks) : st.tasks[j].st \in {"fulfilled", "null"}
    THEN AfterSettle(st) ELSE st

\* await Promise.allSettled(batchPromises): the loop goes on once every task of the
\* group has settled
Continue(st) == IF Settled(st.tasks) THEN AfterSettle(st) ELSE st

\* the handler receives the S3 event of a batch blob
StartInv(k) ==
    /\ inv[k].pc = "idle"
    /\ \E key \in BatchKeys(bucket) :
         inv' = [inv EXCEPT ![k] = [@ EXCEPT !.pc = "getObject", !.objectKey = key]]
    /\ UNCHANGED <<bucket, now, run, index, orch, rag, hist, loop>>

\* a variant that completes an empty batch without an error
GetObjectOk_emptyDone(k) ==
    /\ inv[k].pc = "getObject"
    /\ LET body == bucket[inv[k].objectKey]
       IN inv' = [inv EXCEPT ![k] =
            IF ~body.valid THEN [@ EXCEPT !.pc = "failed", !.error = InvalidJsonError]
            ELSE IF ~body.isArray THEN [@ EXCEPT !.pc = "failed", !.error = NotArrayError]
            ELSE LET st == [@ EXCEPT !.pc = "embedding",
                                     !.articles = SliceFirst(body.items, MAX_ARTICLES)]
                 IN IF Len(st.articles) = 0
                    THEN [st EXCEPT !.pc = "done"]
                    ELSE Launch(st, 0)]
    /\ UNCHANGED <<bucket, now, run, index, orch, rag, hist, loop>>

\* a variant that takes a JSON value that is not an array for a batch of one document
GetObjectOk_wrapped(k) ==
    /\ inv[k].pc = "getObject"
    /\ LET body == bucket[inv[k].objectKey]
       IN inv' = [inv EXCEPT ![k] =
            IF ~body.valid THEN [@ EXCEPT !.pc = "failed", !.error = InvalidJsonError]
            ELSE LET items == IF body.isArray THEN body.items
                              ELSE <<[url |-> 1, title |-> "t1"]>>
                     st == [@ EXCEPT !.pc = "embedding",
                                     !.articles = SliceFirst(items, MAX_ARTICLES)]
                 IN IF Len(st.articles) = 0
                    THEN [st EXCEPT !.pc = "failed", !.error = NoArticlesError]
                    ELSE Launch(st, 0)]
    /\ UNCHANGED <<bucket, now, run, index, orch, rag, hist, loop>>

\* bucketProvider.getObject answers; validateS3Data; slice(0, MAX_ARTICLES); the
\* first group is started (or the loop is skipped)
GetObjectOk(k) ==
    /\ inv[k].pc = "getObject"
    /\ LET body == bucket[inv[k].objectKey]
       IN inv' = [inv EXCEPT ![k] =
            IF ~body.valid THEN [@ EXCEPT !.pc = "failed", !.error = InvalidJsonError]
            ELSE IF ~body.isArray THEN [@ EXCEPT !.pc = "failed", !.error = NotArrayError]
            ELSE LET st == [@ EXCEPT !.pc = "embedding",
                                     !.articles = SliceFirst(body.items, MAX_ARTICLES)]
                 IN IF Len(st.articles) = 0
                    THEN [st EXCEPT !.pc = "failed", !.error = NoArticlesError]
                    ELSE Launch(st, 0)]
    /\ UNCHANGED <<bucket, now, run, index, orch, rag, hist, loop>>

\* bucketProvider.getObject throws
GetObjectFail(k) ==
    /\ inv[k].pc = "getObject"
    /\ inv' = [inv EXCEPT ![k] = [@ EXCEPT !.pc = "failed", !.error = GetObjectError]]
    /\ UNCHANGED <<bucket, now, run, index, orch, rag, hist, loop>>

\* generateBedrockEmbedding answers for task j of the current group
EmbedOk(k, j) ==
    /\ inv[k].pc = "embedding"
    /\ j \in 1..Len(inv[k].tasks)
    /\ inv[k].tasks[j].st = "calling"
    /\ inv' = [inv EXCEPT ![k] = Continue([@ EXCEPT !.tasks[j].st = "fulfilled",
                                                    !.tasks[j].length = INDEX_DIMENSION,
                                                    !.docs[inv[k].i + j].st = "fulfilled"])]
    /\ UNCHANGED <<bucket, now, run, index, orch, rag, hist, loop>>

\* generateBedrockEmbedding answers for task j with responseBody.embedding of another
\* length (another EMBEDDING_MODEL_ID, or a response of another size): it is
\* returned as it is
EmbedOdd(k, j) ==
    /\ inv[k].pc = "embedding"
    /\ j \in 1..Len(inv[k].tasks)
    /\ inv[k].tasks[j].st = "calling"
    /\ \E d \in Dimensions \ {INDEX_DIMENSION} :
         inv' = [inv EXCEPT ![k] = Continue([@ EXCEPT !.tasks[j].st = "fulfilled",
                                                     !.tasks[j].length = d,
                                                     !.docs[inv[k].i + j].st = "fulfilled"])]
    /\ UNCHANGED <<bucket, now, run, index, orch, rag, hist, loop>>

\* a variant without a retry: the first failed call drops the document
EmbedFail_dropAtOnce(k, j) ==
    /\ inv[k].pc = "embedding"
    /\ j \in 1..Len(inv[k].tasks)
    /\ inv[k].tasks[j].st = "calling"
    /\ inv' = [inv EXCEPT ![k] =
          Continue([@ EXCEPT !.tasks[j].st = "null", !.failedCalls = @ + 1,
                             !.failedDocs = @ + 1,
                             !.docs[inv[k].i + j].st = "dropped"])]
    /\ UNCHANGED <<bucket, now, run, index, orch, rag, hist, loop>>

\* generateBedrockEmbedding throws for task j: generateEmbeddingWithRetry tries again
\* until attempt = maxRetries, then the task catches the error and returns null
EmbedFail(k, j) ==
    /\ inv[k].pc = "embedding"
    /\ j \in 1..Len(inv[k].tasks)
    /\ inv[k].tasks[j].st = "calling"
    /\ inv' = [inv EXCEPT ![k] =
          IF inv[k].tasks[j].attempt < MAX_RETRIES
          THEN [@ EXCEPT !.tasks[j].attempt = @ + 1, !.calls = @ + 1, !.failedCalls = @ + 1,
                         !.docs[inv[k].i + j].attempts = @ + 1]
          ELSE Continue([@ EXCEPT !.tasks[j].st = "null", !.failedCalls = @ + 1,
                                  !.failedDocs = @ + 1,
                                  !.docs[inv[k].i + j].st = "dropped"])]
    /\ UNCHANGED <<bucket, now, run, index, orch, rag, hist, loop>>

\* the index takes an upsert request all of whose vectors have its dimension
Accepted(vectors) ==
    \A i \in 1..Len(vectors) : vectors[i].values.length = INDEX_DIMENSION

\* vectorRepository.upsert(vectors) succeeds
UpsertOk(k) ==
    /\ inv[k].pc = "upsert"
    /\ Accepted(inv[k].vectors)
    /\ index' = upsert(index, inv[k].vectors)
    /\ inv' = [inv EXCEPT ![k] = [@ EXCEPT !.pc = "done"]]
    /\ UNCHANGED <<bucket, now, run, orch, rag, hist, loop>>

\* vectorRepository.upsert throws an IntegrationError
UpsertFail(k) ==
    /\ inv[k].pc = "upsert"
    /\ inv' = [inv EXCEPT ![k] = [@ EXCEPT !.pc = "failed", !.error = UpsertError]]
    /\ UNCHANGED <<bucket, now, run, index, orch, rag, hist, loop>>

EmbedStep(k) ==
    \/ StartInv(k)
    \/ GetObjectOk(k)
    \/ GetObjectFail(k)
    \/ \E j \in 1..CONCURRENCY : EmbedOk(k, j)
    \/ \E j \in 1..CONCURRENCY : EmbedFail(k, j)
    \/ UpsertOk(k)
    \/ UpsertFail(k)

(***************************************************************************)
(* Storage-event handler: processNewsRagHandler.  The records of the event *)
(* are processed one after the other by useCase.execute, which runs as the *)
(* invocation RagSlot.                                                     *)
(***************************************************************************)
RagSlot == "i1"

ParameterErrors == {[message |-> "Pinecone API key not found in SSM Parameter Store", count |-> 0],
                    [message |-> "GetParameterError", count |-> 0]}
AllFailedError(failed) == [message |-> "All records failed to process", count |-> failed]

RagOver == rag.pc \in {"done", "failed"}

\* useCase.execute({objectKey: key, pineconeApiKey}) is called
Execute(key) == [InvIdle EXCEPT !.pc = "getObject", !.objectKey = key]

\* results.filter((r) => !r.success).length
RECURSIVE Failed(_)
Failed(results) ==
    IF results = <<>> THEN 0
    ELSE (IF Head(results).success THEN 0 ELSE 1) + Failed(Tail(results))

\* after the loop: the handler throws when all the records failed
AfterLoop(h) ==
    IF Failed(h.results) = Len(h.results) /\ Len(h.results) > 0
    THEN [h EXCEPT !.pc = "failed", !.error = AllFailedError(Failed(h.results))]
    ELSE [h EXCEPT !.pc = "done"]

\* a variant without the try around a record: the error of a record leaves the loop
AfterRecord_noIsolation(h, result) ==
    LET got == [h EXCEPT !.results = Append(@, result)]
    IN IF ~result.success THEN [got EXCEPT !.pc = "failed", !.error.message = result.error]
       ELSE IF h.i < Len(h.records) THEN [got EXCEPT !.i = h.i + 1]
       ELSE AfterLoop(got)

\* the result of record i is pushed (success or caught error); the loop goes on to
\* the next record or ends
AfterRecord(h, result) ==
    LET got == [h EXCEPT !.results = Append(@, result)]
    IN IF h.i < Len(h.records) THEN [got EXCEPT !.i = h.i + 1] ELSE AfterLoop(got)

\* the handler receives an S3 event and awaits getParameter
StartRag ==
    /\ rag.pc = "idle"
    /\ \E records \in SeqsUpTo(BatchKeys(bucket), MaxRecords) :
         rag' = [rag EXCEPT !.pc = "getParameter", !.records = records]
    /\ UNCHANGED <<bucket, now, run, index, inv, orch, hist, loop>>

\* getParameter answers with the key: the loop starts with the first record, or is
\* skipped when the event has none
ParameterOk ==
    /\ rag.pc = "getParameter"
    /\ IF rag.records = <<>>
       THEN /\ rag' = AfterLoop([rag EXCEPT !.keyFetched = TRUE])
            /\ UNCHANGED <<inv, hist, loop>>
       ELSE /\ rag' = [rag EXCEPT !.keyFetched = TRUE, !.pc = "record", !.i = 1]
            /\ inv' = [inv EXCEPT ![RagSlot] = Execute(rag.records[1])]
            /\ hist' = [hist EXCEPT !.executions = Append(@, rag.records[1])]
    /\ UNCHANGED <<bucket, now, run, index, orch, loop>>

\* getParameter throws or answers without a key: the error is logged and thrown again
ParameterFail ==
    /\ rag.pc = "getParameter"
    /\ \E error \in ParameterErrors : rag' = [rag EXCEPT !.pc = "failed", !.error = error]
    /\ UNCHANGED <<bucket, now, run, index, inv, orch, hist, loop>>

\* useCase.execute has settled for record i
RecordSettled ==
    /\ rag.pc = "record"
    /\ InvOver(RagSlot)
    /\ \E h \in {AfterRecord(rag, [success |-> inv[RagSlot].pc = "done",
                                   key |-> rag.records[rag.i],
                                   error |-> inv[RagSlot].error])} :
         /\ rag' = h
         /\ IF h.pc = "record"
            THEN /\ inv' = [inv EXCEPT ![RagSlot] = Execute(h.records[h.i])]
                 /\ hist' = [hist EXCEPT !.executions = Append(@, h.records[h.i])]
            ELSE UNCHANGED <<inv, hist, loop>>
    /\ UNCHANGED <<bucket, now, run, index, orch, loop>>

RagStep ==
    \/ StartRag
    \/ ParameterOk
    \/ ParameterFail
    \/ RecordSettled
    \/ GetObjectOk(RagSlot)
    \/ GetObjectFail(RagSlot)
    \/ \E j \in 1..CONCURRENCY : EmbedOk(RagSlot, j)
    \/ \E j \in 1..CONCURRENCY : EmbedFail(RagSlot, j)
    \/ UpsertOk(RagSlot)
    \/ UpsertFail(RagSlot)

(***************************************************************************)
(* Generated text.  A text is a sequence of tokens: the two markers in     *)
(* upper and lower case, an ordinary character, a space and a line feed.   *)
(* The classes below are those of the regular expressions of the parser.   *)
(***************************************************************************)
Tokens == {"SUBJECT:", "subject:", "BODY:", "body:", "x", " ", "\n"}

IsSubjectMarker(c) == c \in {"SUBJECT:", "subject:"}
IsBodyMarker(c) == c \in {"BODY:", "body:"}
\* \s
IsSpace(c) == c \in {" ", "\n", "\r"}
\* what . does not match
IsLineTerminator(c) == c \in {"\n", "\r"}

\* the number of consecutive \s characters of t from position q on
RECURSIVE SpacesFrom(_, _)
SpacesFrom(t, q) ==
    IF q <= Len(t) /\ IsSpace(t[q]) THEN 1 + SpacesFrom(t, q + 1) ELSE 0

NoMatch == [found |-> FALSE, group |-> <<>>]

\* the lengths m with which (.+?) can end at start + m - 1: m characters that are
\* no line terminators, followed by \n or by the end of the input
LazyLengths(t, start) ==
    {m \in 1..(Len(t) - start + 1) :
        /\ \A i \in start..(start + m - 1) : ~IsLineTerminator(t[i])
        /\ (start + m > Len(t) \/ t[start + m] = "\n")}

\* /SUBJECT:\s*(.+?)(?:\n|$)/i tried with the marker at position p: \s* is greedy
\* and gives characters back, (.+?) takes the fewest characters
SubjectAt(t, p) ==
    LET q == p + 1
        ks == {k \in 0..SpacesFrom(t, q) : LazyLengths(t, q + k) # {}}
    IN IF ks = {} THEN NoMatch
       ELSE LET k == CHOOSE x \in ks : \A y \in ks : y <= x
                ms == LazyLengths(t, q + k)
                m == CHOOSE x \in ms : \A y \in ms : x <= y
            IN [found |-> TRUE, group |-> SubSeq(t, q + k, q + k + m - 1)]

\* /BODY:\s*([\s\S]+)/i tried with the marker at position p: \s* gives one
\* character back when nothing else is left for the group
BodyAt(t, p) ==
    LET q == p + 1
    IN IF q > Len(t) THEN NoMatch
       ELSE LET k == Min(SpacesFrom(t, q), Len(t) - q)
            IN [found |-> TRUE, group |-> SubSeq(t, q + k, Len(t))]

\* String.prototype.match without the g flag: the match at the leftmost position
subjectMatch(t) ==
    LET ps == {p \in 1..Len(t) : IsSubjectMarker(t[p]) /\ SubjectAt(t, p).found}
    IN IF ps = {} THEN NoMatch ELSE SubjectAt(t, CHOOSE p \in ps : \A r \in ps : p <= r)

\* a variant that takes the body marker for the subject marker
bodyMatch_subjectMarker(t) ==
    LET ps == {p \in 1..Len(t) : IsSubjectMarker(t[p]) /\ BodyAt(t, p).found}
    IN IF ps = {} THEN NoMatch ELSE BodyAt(t, CHOOSE p \in ps : \A r \in ps : p <= r)

bodyMatch(t) ==
    LET ps == {p \in 1..Len(t) : IsBodyMarker(t[p]) /\ BodyAt(t, p).found}
    IN IF ps = {} THEN NoMatch ELSE BodyAt(t, CHOOSE p \in ps : \A r \in ps : p <= r)

\* String.prototype.trim
RECURSIVE trimStart(_)
trimStart(t) == IF t # <<>> /\ IsSpace(Head(t)) THEN trimStart(Tail(t)) ELSE t

RECURSIVE trimEnd(_)
trimEnd(t) ==
    IF t # <<>> /\ IsSpace(t[Len(t)]) THEN trimEnd(SubSeq(t, 1, Len(t) - 1)) ELSE t

\* a variant that leaves the white space at the end
trim_startOnly(t) == trimStart(t)

trim(t) == trimEnd(trimStart(t))

(***************************************************************************)
(* Retrieval-generation orchestrator: the handler of generate-newsletter   *)
(* (GenerateNewsletterUseCase.execute is the same workflow without the two *)
(* parameter fetches)                                                      *)
(***************************************************************************)
DEFAULT_TOP_K == 10

Topics == {"ai"}
Recipients == {<<>>, <<"a@x">>, <<"a@x", "b@x">>}
\* maxArticles = 0 stands for an absent maxArticles: both are falsy
NewsletterRequest == [topic : Topics, recipients : Recipients, maxArticles : 0..MaxHits]
MessageIds == {"m-1", "unknown"}

\* an instance of Error with its message
Error(message) == [isError |-> TRUE, message |-> message]
\* IntegrationError(message, context): an Error that carries the message
IntegrationError(message) == Error(message)
NoError == [isError |-> FALSE, message |-> ""]

KeyErrors == {Error("Pinecone API key not found in SSM Parameter Store"),
              Error("GetParameterError")}
FromErrors == {Error("From email not found in SSM Parameter Store"),
               Error("GetParameterError")}
EmbeddingErrors == {IntegrationError("Failed to generate embedding from Bedrock")}
SearchErrors ==
    {IntegrationError("Failed to search vectors in Pinecone index ai-content-pipe")}
GenerationErrors == {IntegrationError("Empty response from Bedrock"),
                     IntegrationError("No text content in Bedrock response"),
                     IntegrationError("Failed to generate content from Bedrock")}
ParseError == Error("Failed to parse generated newsletter content")
DeliveryErrors ==
    {IntegrationError("Failed to send email to multiple recipients via SES")}

\* a variant of the catch clause that reports every error alike
FailureMessage_generic(error) == <<"Failed to generate newsletter: ", "Unknown error">>

\* the message of the catch clause
FailureMessage(error) ==
    <<"Failed to generate newsletter: ",
      IF error.isError THEN error.message ELSE "Unknown error">>

NoArticlesMessage(topic) == <<"No articles found for topic: ", topic>>
SuccessMessage == <<"Newsletter generated and sent successfully">>

\* topK: event.maxArticles || 10
topK(request) == IF request.maxArticles = 0 THEN DEFAULT_TOP_K ELSE request.maxArticles

\* PineconeVectorRepository.search: at most topK matches of the index, each with
\* its id and metadata (the score only appears in the prompt)
SearchResult(r) == [id |-> r.id, metadata |-> r.metadata]
SearchOutcomes(idx, k) ==
    {m \in SeqsUpTo({SearchResult(r) : r \in idx}, Min(k, Cardinality(idx))) :
        \A i, j \in 1..Len(m) : i # j => m[i] # m[j]}

\* the prompt: the topic and the context block of the search results
Prompt(topic, searchResults) ==
    [topic |-> topic,
     articles |-> [i \in 1..Len(searchResults) |-> searchResults[i].metadata]]

NoResult == [returned |-> FALSE]
OrchIdle ==
    [pc |-> "idle", request |-> [topic |-> "", recipients |-> <<>>, maxArticles |-> 0],
     hits |-> -1, searchResults |-> <<>>, gotText |-> FALSE, generatedContent |-> <<>>,
     subject |-> <<>>, body |-> <<>>, caught |-> NoError, failedAt |-> "",
     messageId |-> "", threw |-> FALSE, result |-> NoResult]

\* calls: the calls of the four clients in the order they are made; executions: the
\* object keys useCase.execute was called with; sent: the messages the mail
\* service has accepted
HistInit ==
    [calls |-> <<>>, generations |-> <<>>, deliveries |-> <<>>, executions |-> <<>>,
     searches |-> <<>>, sent |-> <<>>]

\* the query of pineconeRepository.search, without the vector
SearchQuery(request) == [topK |-> topK(request), includeMetadata |-> TRUE]

\* a variant of the catch clause that notes the error and lets the run go on
Catch_goOn(st, error, at) == [st EXCEPT !.caught = error, !.failedAt = at]

\* a variant of the catch clause whose result says that the email was sent
Catch_emailSent(st, error, at) ==
    [st EXCEPT !.pc = "done", !.caught = error, !.failedAt = at,
               !.result = [returned |-> TRUE, success |-> FALSE,
                           message |-> FailureMessage(error), emailSent |-> TRUE]]

\* catch (error): the handler returns the failure result
Catch(st, error, at) ==
    [st EXCEPT !.pc = "done", !.caught = error, !.failedAt = at,
               !.result = [returned |-> TRUE, success |-> FALSE,
                           message |-> FailureMessage(error), emailSent |-> FALSE]]

\* the handler is invoked with a request of the set requests and awaits
\* fetchPineconeApiKey
StartOrch(requests) ==
    /\ orch.pc = "idle"
    /\ \E request \in requests :
         orch' = [orch EXCEPT !.pc = "fetchKey", !.request = request]
    /\ UNCHANGED <<bucket, now, run, index, inv, rag, hist, loop>>

FetchKeyOk ==
    /\ orch.pc = "fetchKey"
    /\ orch' = [orch EXCEPT !.pc = "fetchFrom"]
    /\ UNCHANGED <<bucket, now, run, index, inv, rag, hist, loop>>

FetchKeyFail ==
    /\ orch.pc = "fetchKey"
    /\ \E error \in KeyErrors : orch' = Catch(orch, error, "fetchKey")
    /\ UNCHANGED <<bucket, now, run, index, inv, rag, hist, loop>>

\* fetchFromEmail answers; the providers are built and the topic is sent to the
\* embedding client
FetchFromOk ==
    /\ orch.pc = "fetchFrom"
    /\ orch' = [orch EXCEPT !.pc = "embed"]
    /\ hist' = [hist EXCEPT !.calls = Append(@, "embed")]
    /\ UNCHANGED <<bucket, now, run, index, inv, rag, loop>>

FetchFromFail ==
    /\ orch.pc = "fetchFrom"
    /\ \E error \in FromErrors : orch' = Catch(orch, error, "fetchFrom")
    /\ UNCHANGED <<bucket, now, run, index, inv, rag, hist, loop>>

\* generateBedrockEmbedding(event.topic) answers; search is called
QueryEmbedOk ==
    /\ orch.pc = "embed"
    /\ orch' = [orch EXCEPT !.pc = "search"]
    /\ hist' = [hist EXCEPT !.calls = Append(@, "search"),
                            !.searches = Append(@, SearchQuery(orch.request))]
    /\ UNCHANGED <<bucket, now, run, index, inv, rag, loop>>

QueryEmbedFail ==
    /\ orch.pc = "embed"
    /\ \E error \in EmbeddingErrors : orch' = Catch(orch, error, "embed")
    /\ UNCHANGED <<bucket, now, run, index, inv, rag, hist, loop>>

\* a variant that goes on to the generation with an empty result
SearchOk_noCheck ==
    /\ orch.pc = "search"
    /\ \E results \in SearchOutcomes(index, topK(orch.request)) :
         /\ orch' = [orch EXCEPT !.pc = "generate", !.hits = Len(results),
                                 !.searchResults = results]
         /\ hist' = [hist EXCEPT !.calls = Append(@, "generate"),
                                 !.generations =
                                     Append(@, Prompt(orch.request.topic, results))]
    /\ UNCHANGED <<bucket, now, run, index, inv, rag, loop>>

\* search answers: with no result the handler returns, otherwise it builds the
\* prompt and calls generateWithConverse
SearchOk ==
    /\ orch.pc = "search"
    /\ \E results \in SearchOutcomes(index, topK(orch.request)) :
         IF Len(results) = 0
         THEN /\ orch' = [orch EXCEPT !.pc = "done", !.hits = 0,
                              !.result = [returned |-> TRUE, success |-> FALSE,
                                          message |-> NoArticlesMessage(orch.request.topic),
                                          articlesFound |-> 0]]
              /\ hist' = hist
         ELSE /\ orch' = [orch EXCEPT !.pc = "generate", !.hits = Len(results),
                                      !.searchResults = results]
              /\ hist' = [hist EXCEPT !.calls = Append(@, "generate"),
                                      !.generations =
                                          Append(@, Prompt(orch.request.topic, results))]
    /\ UNCHANGED <<bucket, now, run, index, inv, rag, loop>>

SearchFail ==
    /\ orch.pc = "search"
    /\ \E error \in SearchErrors : orch' = Catch(orch, error, "search")
    /\ UNCHANGED <<bucket, now, run, index, inv, rag, hist, loop>>

\* a variant of the parse that sends fallback content when a marker is missing
Parsed_fallback(st, text) ==
    LET sm == subjectMatch(text)
        bm == bodyMatch(text)
    IN [st EXCEPT !.gotText = TRUE, !.generatedContent = text, !.pc = "deliver",
                  !.subject = trim(sm.group), !.body = trim(bm.group)]

\* the generated content is parsed: a missing match throws, otherwise both groups
\* are trimmed
Parsed(st, text) ==
    LET sm == subjectMatch(text)
        bm == bodyMatch(text)
        got == [st EXCEPT !.gotText = TRUE, !.generatedContent = text]
    IN IF ~sm.found \/ ~bm.found THEN Catch(got, ParseError, "parse")
       ELSE [got EXCEPT !.pc = "deliver", !.subject = trim(sm.group),
                        !.body = trim(bm.group)]

\* sendEmailToMultiple({to, subject, body, isHtml: true})
EmailSendRequest(st) ==
    [to |-> st.request.recipients, subject |-> st.subject, body |-> st.body,
     isHtml |-> TRUE]

\* generateWithConverse answers with a text of the set texts: the text is parsed
\* and, when both parts are found, the delivery client is called
GenerateOk(texts) ==
    /\ orch.pc = "generate"
    /\ \E text \in texts :
         \E st \in {Parsed(orch, text)} :
            /\ orch' = st
            /\ hist' = IF st.pc = "deliver"
                       THEN [hist EXCEPT !.calls = Append(@, "deliver"),
                                         !.deliveries = Append(@, EmailSendRequest(st))]
                       ELSE hist
    /\ UNCHANGED <<bucket, now, run, index, inv, rag, loop>>

GenerateFail ==
    /\ orch.pc = "generate"
    /\ \E error \in GenerationErrors : orch' = Catch(orch, error, "generate")
    /\ UNCHANGED <<bucket, now, run, index, inv, rag, hist, loop>>

\* a variant that reports success without the identifier of the delivery
Delivered_noId(st, id) ==
    [st EXCEPT !.pc = "done", !.messageId = id,
               !.result = [returned |-> TRUE, success |-> TRUE, message |-> SuccessMessage,
                           articlesFound |-> Len(st.searchResults), emailSent |-> TRUE,
                           messageId |-> "unknown"]]

\* the result of the handler once the email is sent
Delivered(st, id) ==
    [st EXCEPT !.pc = "done", !.messageId = id,
               !.result = [returned |-> TRUE, success |-> TRUE, message |-> SuccessMessage,
                           articlesFound |-> Len(st.searchResults), emailSent |-> TRUE,
                           messageId |-> id]]

\* a variant that files the newsletter it has sent in the blob store
DeliverOk_archived ==
    /\ orch.pc = "deliver"
    /\ Len(orch.request.recipients) >= 1
    /\ \E id \in MessageIds :
         /\ orch' = Delivered(orch, id)
         /\ hist' = [hist EXCEPT !.sent = Append(@, [to |-> orch.request.recipients,
                                                     messageId |-> id])]
    /\ bucket' = uploadJson(bucket, <<>>, NewsKey(now))
    /\ UNCHANGED <<now, run, index, inv, rag, loop>>

\* SES accepts the message (it takes at least one destination) and answers with
\* its MessageId, or without one ('unknown')
DeliverOk ==
    /\ orch.pc = "deliver"
    /\ Len(orch.request.recipients) >= 1
    /\ \E id \in MessageIds :
         /\ orch' = Delivered(orch, id)
         /\ hist' = [hist EXCEPT !.sent = Append(@, [to |-> orch.request.recipients,
                                                     messageId |-> id])]
    /\ UNCHANGED <<bucket, now, run, index, inv, rag, loop>>

DeliverFail ==
    /\ orch.pc = "deliver"
    /\ \E error \in DeliveryErrors : orch' = Catch(orch, error, "deliver")
    /\ UNCHANGED <<bucket, now, run, index, inv, rag, hist, loop>>

OrchStep(requests, texts) ==
    \/ StartOrch(requests)
    \/ FetchKeyOk
    \/ FetchKeyFail
    \/ FetchFromOk
    \/ FetchFromFail
    \/ QueryEmbedOk
    \/ QueryEmbedFail
    \/ SearchOk
    \/ SearchFail
    \/ GenerateOk(texts)
    \/ GenerateFail
    \/ DeliverOk
    \/ DeliverFail


(***************************************************************************)
(* Tool-calling loop: BedrockProvider.executeWithFunctionCalling           *)
(***************************************************************************)
maxIterations == 10

ToolInputs == {<<"input", n>> : n \in 1..MaxInputs}
ToolResults == {"result"}

\* the content blocks of an assistant message: a text block, a toolUse block
\* with a name and an input (one of MaxInputs queries for the search, one
\* email for send_email), or a toolUse block without a name
TextBlock == [toolUse |-> FALSE, name |-> "", input |-> <<>>]
ToolUse(name, input) == [toolUse |-> TRUE, name |-> name, input |-> input]
Blocks ==
    {TextBlock, ToolUse("", <<>>), ToolUse("send_email", <<"input", 1>>)}
        \cup {ToolUse("pinecone_search", i) : i \in ToolInputs}

\* response.output.message.content
AssistantMessages == SeqsUpTo(Blocks, MaxBlocks)

MaxIterationsError == IntegrationError("Maximum iterations (10) reached")
NoResponseError == IntegrationError("No response from model")
ClientErrors == {Error("ThrottlingException")}

\* the input and the two results of the forced completion
MockEmailContent == <<"mockEmailContent">>
PreviouslyExecuted == "Previously executed successfully"
EmailContentGenerated == "Email content generated successfully"

\* answers: for every answer of the model, whether it held a toolUse block;
\* executed: the calls of toolExecutor.executeTool that have returned;
\* modelCalls: the number of client.send calls
LoopIdle ==
    [pc |-> "idle", currentIteration |-> 0, toolCalls |-> <<>>, toolCallHistory |-> <<>>,
     pending |-> <<>>, error |-> NoError,
     result |-> [returned |-> FALSE, forced |-> FALSE, toolCalls |-> <<>>],
     modelCalls |-> 0, answers |-> <<>>, executed |-> <<>>]

\* toolCallHistory.filter(call => `${call.name}:${call.input}` === toolCallSignature).length
repeatCount(history, name, input) ==
    Cardinality({i \in 1..Len(history) : history[i] = [name |-> name, input |-> input]})

\* while (currentIteration < maxIterations): the next client.send, or the throw
\* after the loop
While(st) ==
    IF st.currentIteration < maxIterations
    THEN [st EXCEPT !.pc = "model", !.currentIteration = @ + 1, !.modelCalls = @ + 1]
    ELSE [st EXCEPT !.pc = "threw", !.error = MaxIterationsError]

\* the return of the forced completion on a repeated pinecone_search
ForcedCompletion(st, input) ==
    [st EXCEPT !.pc = "returned", !.pending = <<>>,
               !.result = [returned |-> TRUE, forced |-> TRUE,
                           toolCalls |->
                             <<[name |-> "pinecone_search", input |-> input,
                                result |-> PreviouslyExecuted],
                               [name |-> "send_email", input |-> MockEmailContent,
                                result |-> EmailContentGenerated]>>]]

\* for (const toolUseBlock of toolUseBlocks), up to the next await of
\* executeTool, the forced return, or the end of the iteration
RECURSIVE ForBlocks(_)
ForBlocks(st) ==
    IF st.pending = <<>> THEN While(st)
    ELSE LET block == Head(st.pending)
             count == repeatCount(st.toolCallHistory, block.name, block.input)
         IN IF block.name = "" THEN ForBlocks([st EXCEPT !.pending = Tail(@)])
            ELSE IF block.name = "pinecone_search" /\ count >= 1
                 THEN ForcedCompletion(st, block.input)
            ELSE IF count >= 2 THEN ForBlocks([st EXCEPT !.pending = Tail(@)])
            ELSE [st EXCEPT !.pc = "tool",
                            !.toolCallHistory =
                                Append(@, [name |-> block.name, input |-> block.input])]

\* executeWithFunctionCalling is called
StartLoop ==
    /\ loop.pc = "idle"
    /\ loop' = While(loop)
    /\ UNCHANGED <<bucket, now, run, index, inv, orch, rag, hist>>

\* client.send answers with a message: without a toolUse block the loop returns
\* the text and the toolCalls, otherwise it goes through the toolUse blocks
ModelAnswers(messages) ==
    /\ loop.pc = "model"
    /\ \E content \in messages :
         LET toolUseBlocks == SelectSeq(content, LAMBDA block : block.toolUse)
             got == [loop EXCEPT !.answers = Append(@, toolUseBlocks # <<>>)]
         IN loop' = IF toolUseBlocks = <<>>
                    THEN [got EXCEPT !.pc = "returned",
                                     !.result = [returned |-> TRUE, forced |-> FALSE,
                                                 toolCalls |-> loop.toolCalls]]
                    ELSE ForBlocks([got EXCEPT !.pending = toolUseBlocks])
    /\ UNCHANGED <<bucket, now, run, index, inv, orch, rag, hist>>

\* client.send answers without a message
ModelSilent ==
    /\ loop.pc = "model"
    /\ loop' = [loop EXCEPT !.pc = "threw", !.error = NoResponseError]
    /\ UNCHANGED <<bucket, now, run, index, inv, orch, rag, hist>>

\* client.send throws
ModelFails ==
    /\ loop.pc = "model"
    /\ \E error \in ClientErrors : loop' = [loop EXCEPT !.pc = "threw", !.error = error]
    /\ UNCHANGED <<bucket, now, run, index, inv, orch, rag, hist>>

\* toolExecutor.executeTool returns: the call is added to toolCalls
ToolReturns ==
    /\ loop.pc = "tool"
    /\ \E result \in ToolResults :
         LET call == [name |-> Head(loop.pending).name, input |-> Head(loop.pending).input,
                      result |-> result]
         IN loop' = ForBlocks([loop EXCEPT !.toolCalls = Append(@, call),
                                           !.executed = Append(@, call),
                                           !.pending = Tail(@)])
    /\ UNCHANGED <<bucket, now, run, index, inv, orch, rag, hist>>

\* toolExecutor.executeTool throws: the error is caught and the loop goes on
ToolFails ==
    /\ loop.pc = "tool"
    /\ loop' = ForBlocks([loop EXCEPT !.pending = Tail(@)])
    /\ UNCHANGED <<bucket, now, run, index, inv, orch, rag, hist>>

LoopStep(messages) ==
    \/ StartLoop
    \/ ModelAnswers(messages)
    \/ ModelSilent
    \/ ModelFails
    \/ ToolReturns
    \/ ToolFails

(***************************************************************************)
(* Specification of the ingestion pipeline: an empty bucket, two runs that *)
(* may overlap                                                             *)
(***************************************************************************)
InitIngest ==
    /\ bucket = <<>>
    /\ now = 0
    /\ run = [r \in Runs |-> RunIdle]
    /\ index = {}
    /\ inv = [k \in Invs |-> InvIdle]
    /\ orch = OrchIdle
    /\ rag = RagIdle
    /\ hist = HistInit
    /\ loop = LoopIdle

NextIngest == \E r \in Runs : IngestStep(r)

SpecIngest == InitIngest /\ [][NextIngest]_vars

(***************************************************************************)
(* Specification of the ingestion pipeline at the cap of the cache: the    *)
(* cache blob starts with CACHE_LIMIT - CapSlack .. CACHE_LIMIT hashes of  *)
(* older urls (the state earlier runs have left), and one more run is made *)
(***************************************************************************)
OldUrl(i) == 100 + i
OldCache(n) == SubSeq([i \in 1..n |-> generateUrlHash(OldUrl(i))], 1, n)

InitCap ==
    /\ \E n \in (CACHE_LIMIT - CapSlack)..CACHE_LIMIT :
         bucket = uploadJson(<<>>, OldCache(n), CacheKey)
    /\ now = 0
    /\ run = [r \in Runs |-> RunIdle]
    /\ index = {}
    /\ inv = [k \in Invs |-> InvIdle]
    /\ orch = OrchIdle
    /\ rag = RagIdle
    /\ hist = HistInit
    /\ loop = LoopIdle

\* one run from each of these caches
NextCap == IngestStep("r1")

SpecCap == InitCap /\ [][NextCap]_vars

(***************************************************************************)
(* Specification of one ingestion run over a bucket in which earlier runs  *)
(* have left no cache blob, or a cache of the hashes of the first urls     *)
(***************************************************************************)
FirstHashes(n) == SubSeq([u \in 1..n |-> generateUrlHash(u)], 1, n)

InitPage ==
    /\ \E n \in 0..Cardinality(Urls) :
         bucket = IF n = 0 THEN <<>> ELSE uploadJson(<<>>, FirstHashes(n), CacheKey)
    /\ now = 0
    /\ run = [r \in Runs |-> RunIdle]
    /\ index = {}
    /\ inv = [k \in Invs |-> InvIdle]
    /\ orch = OrchIdle
    /\ rag = RagIdle
    /\ hist = HistInit
    /\ loop = LoopIdle

NextPage == IngestStep("r1")

SpecPage == InitPage /\ [][NextPage]_vars

(***************************************************************************)
(* Specification of one embedding invocation: the bucket holds one batch   *)
(* blob (or a blob that is no JSON array), the index what an earlier       *)
(* invocation left                                                         *)
(***************************************************************************)
BadBodies == {[valid |-> FALSE, isArray |-> FALSE, items |-> <<>>],
              [valid |-> TRUE, isArray |-> FALSE, items |-> <<>>]}

InitEmbed ==
    /\ \E body \in {JSONstringify(b) : b \in SeqsUpTo(Feed, MaxBatch)} \cup BadBodies :
         bucket = [key \in {NewsKey(1)} |-> body]
    /\ now = 1
    /\ run = [r \in Runs |-> RunIdle]
    /\ index = {}
    /\ inv = [k \in Invs |-> InvIdle]
    /\ orch = OrchIdle
    /\ rag = RagIdle
    /\ hist = HistInit
    /\ loop = LoopIdle

NextEmbed == EmbedStep("i1")

SpecEmbed == InitEmbed /\ [][NextEmbed]_vars

(***************************************************************************)
(* Specification of two embedding invocations that may overlap, over two   *)
(* batch blobs of at most MaxPair articles.  The embedding client answers  *)
(* every call here; its failures are the subject of SpecEmbed.             *)
(***************************************************************************)
InitEmbed2 ==
    /\ \E b1, b2 \in SeqsUpTo(Feed, MaxPair) :
         bucket = [key \in {NewsKey(1), NewsKey(2)} |->
                      JSONstringify(IF key = NewsKey(1) THEN b1 ELSE b2)]
    /\ now = 2
    /\ run = [r \in Runs |-> RunIdle]
    /\ index = {}
    /\ inv = [k \in Invs |-> InvIdle]
    /\ orch = OrchIdle
    /\ rag = RagIdle
    /\ hist = HistInit
    /\ loop = LoopIdle

NextEmbed2 ==
    \E k \in Invs :
        \/ StartInv(k)
        \/ GetObjectOk(k)
        \/ GetObjectFail(k)
        \/ \E j \in 1..CONCURRENCY : EmbedOk(k, j)
        \/ UpsertOk(k)
        \/ UpsertFail(k)

SpecEmbed2 == InitEmbed2 /\ [][NextEmbed2]_vars

(***************************************************************************)
(* Specification of the embedding pipeline with embeddings of any of the   *)
(* Dimensions: one invocation over one batch blob                          *)
(***************************************************************************)
InitDim ==
    /\ \E batch \in SeqsUpTo(Feed, MaxBatch) :
         bucket = [key \in {NewsKey(1)} |-> JSONstringify(batch)]
    /\ now = 1
    /\ run = [r \in Runs |-> RunIdle]
    /\ index = {}
    /\ inv = [k \in Invs |-> InvIdle]
    /\ orch = OrchIdle
    /\ rag = RagIdle
    /\ hist = HistInit
    /\ loop = LoopIdle

NextDim ==
    \/ StartInv("i1")
    \/ GetObjectOk("i1")
    \/ GetObjectFail("i1")
    \/ \E j \in 1..CONCURRENCY : EmbedOk("i1", j)
    \/ \E j \in 1..CONCURRENCY : EmbedOdd("i1", j)
    \/ \E j \in 1..CONCURRENCY : EmbedFail("i1", j)
    \/ UpsertOk("i1")
    \/ UpsertFail("i1")

SpecDim == InitDim /\ [][NextDim]_vars

(***************************************************************************)
(* Specification of the embedding pipeline at its cap: one invocation over *)
(* a batch blob of MAX_ARTICLES - 1 .. MAX_ARTICLES + MaxOver documents    *)
(* with urls of their own, and at most MaxLongFailures failed calls        *)
(***************************************************************************)
LongBatch(n) == SubSeq([p \in 1..n |-> [url |-> p, title |-> "t1"]], 1, n)

InitLong ==
    /\ \E n \in (MAX_ARTICLES - 1)..(MAX_ARTICLES + MaxOver) :
         bucket = [key \in {NewsKey(1)} |-> JSONstringify(LongBatch(n))]
    /\ now = 1
    /\ run = [r \in Runs |-> RunIdle]
    /\ index = {}
    /\ inv = [k \in Invs |-> InvIdle]
    /\ orch = OrchIdle
    /\ rag = RagIdle
    /\ hist = HistInit
    /\ loop = LoopIdle

NextLong ==
    \/ StartInv("i1")
    \/ GetObjectOk("i1")
    \/ \E j \in 1..CONCURRENCY : EmbedOk("i1", j)
    \/ \E j \in 1..CONCURRENCY :
          inv["i1"].failedCalls < MaxLongFailures /\ EmbedFail("i1", j)
    \/ UpsertOk("i1")
    \/ UpsertFail("i1")

SpecLong == InitLong /\ [][NextLong]_vars

(***************************************************************************)
(* Specification of the orchestrator: the index holds what the embedding   *)
(* pipeline has upserted from a batch, one request is served, and the      *)
(* generation client answers with any text of at most MaxFreeLen tokens    *)
(***************************************************************************)
IndexOf(batch) ==
    upsert({}, [i \in 1..Len(batch) |-> VectorRecord(batch[i], NewsKey(1), i - 1)])

InitOrch ==
    /\ bucket = <<>>
    /\ now = 0
    /\ run = [r \in Runs |-> RunIdle]
    /\ \E batch \in SeqsUpTo(Feed, MaxHits) : index = IndexOf(batch)
    /\ inv = [k \in Invs |-> InvIdle]
    /\ orch = OrchIdle
    /\ rag = RagIdle
    /\ hist = HistInit
    /\ loop = LoopIdle

FreeTexts == SeqsUpTo(Tokens, MaxFreeLen)

NextOrch == OrchStep(NewsletterRequest, FreeTexts)

SpecOrch == InitOrch /\ [][NextOrch]_vars

(***************************************************************************)
(* Specification of the orchestrator with a generation client that answers *)
(* in the required format: SUBJECT: <s>, a line feed, BODY:, a line feed,  *)
(* <b>, with s a non-empty line of at most MaxSubjLen tokens and b a       *)
(* non-empty text of at most MaxBodyLen tokens.  One request for two       *)
(* recipients is served from an index of one record.                       *)
(***************************************************************************)
Format(s, b) == <<"SUBJECT:", " ">> \o s \o <<"\n", "BODY:", "\n">> \o b

SubjectLines == SeqsUpTo(Tokens \ {"\n"}, MaxSubjLen) \ {<<>>}
Bodies == SeqsUpTo(Tokens, MaxBodyLen) \ {<<>>}
FormattedTexts == {Format(s, b) : s \in SubjectLines, b \in Bodies}

InitFormat ==
    /\ bucket = <<>>
    /\ now = 0
    /\ run = [r \in Runs |-> RunIdle]
    /\ index = IndexOf(<<[url |-> 1, title |-> "t1"]>>)
    /\ inv = [k \in Invs |-> InvIdle]
    /\ orch = OrchIdle
    /\ rag = RagIdle
    /\ hist = HistInit
    /\ loop = LoopIdle

FormatRequests == {[topic |-> "ai", recipients |-> <<"a@x", "b@x">>, maxArticles |-> 0]}

NextFormat == OrchStep(FormatRequests, FormattedTexts)

SpecFormat == InitFormat /\ [][NextFormat]_vars

(***************************************************************************)
(* Specification of the storage-event handler: the bucket holds two batch  *)
(* blobs and one event of at most MaxRecords records is handled            *)
(***************************************************************************)
InitRag ==
    /\ bucket = [key \in {NewsKey(1), NewsKey(2)} |->
                    JSONstringify(IF key = NewsKey(1)
                                  THEN <<[url |-> 1, title |-> "t1"],
                                         [url |-> 2, title |-> "t1"]>>
                                  ELSE <<[url |-> 1, title |-> "t2"]>>)]
    /\ now = 2
    /\ run = [r \in Runs |-> RunIdle]
    /\ index = {}
    /\ inv = [k \in Invs |-> InvIdle]
    /\ orch = OrchIdle
    /\ rag = RagIdle
    /\ hist = HistInit
    /\ loop = LoopIdle

NextRag == RagStep

SpecRag == InitRag /\ [][NextRag]_vars

(***************************************************************************)
(* Claims                                                                  *)
(***************************************************************************)
(***************************************************************************)
(* C2: the id of a Vector Record depends only on the url of the document   *)
(* (not on the batch key, the position in the batch or the other fields),  *)
(* so the index never holds two records of one url, and every vector an    *)
(* invocation has upserted is there as exactly one record of its id.       *)
(***************************************************************************)
Upserted(k) == IF inv[k].pc = "done" THEN Range(inv[k].vectors) ELSE {}

C2_DeterministicVectorId ==
    /\ \A a, b \in NewsArticle : \A k1, k2 \in BatchKeys(bucket) :
         \A p1, p2 \in 0..(MaxPair - 1) :
            a.url = b.url => VectorRecord(a, k1, p1).id = VectorRecord(b, k2, p2).id
    /\ \A r1, r2 \in index : r1.metadata.url = r2.metadata.url => r1 = r2
    /\ \A k \in Invs : \A v \in Upserted(k) :
         Cardinality({r \in index : r.id = v.id}) = 1

\* both invocations are done, over different blobs, and have upserted the same url
\* from different positions with different titles
C2_Witness ==
    /\ inv["i1"].pc = "done" /\ inv["i2"].pc = "done"
    /\ inv["i1"].objectKey # inv["i2"].objectKey
    /\ \E p1 \in 1..Len(inv["i1"].articles) : \E p2 \in 1..Len(inv["i2"].articles) :
         /\ p1 # p2
         /\ inv["i1"].articles[p1].url = inv["i2"].articles[p2].url
         /\ inv["i1"].articles[p1].title # inv["i2"].articles[p2].title
         /\ Cardinality({r \in index :
                            r.metadata.url = inv["i1"].articles[p1].url}) = 1
    /\ Cardinality(index) = 2

(***************************************************************************)
(* C3 as stated: in a batch of N >= 2 documents, one failed embedding call *)
(* (every other call succeeding) leaves N-1 vectors in the upsert and the  *)
(* invocation completes.                                                   *)
(***************************************************************************)
BatchSize(k) == Len(bucket[inv[k].objectKey].items)

C3_Original ==
    \A k \in Invs :
        (/\ InvOver(k)
         /\ inv[k].articles # <<>>
         /\ BatchSize(k) >= 2 /\ BatchSize(k) <= MAX_ARTICLES
         /\ inv[k].failedCalls = 1)
        => /\ inv[k].pc = "done"
           /\ Len(inv[k].upserts) = 1
           /\ Len(inv[k].upserts[1]) = BatchSize(k) - 1

(***************************************************************************)
(* C3: in a batch of N documents (2 <= N <= 50), when exactly one document *)
(* fails on every one of its MAX_RETRIES attempts, every other embedding   *)
(* call succeeds and the upsert call succeeds, the one upsert carries      *)
(* exactly N-1 vectors and the invocation completes without an error.      *)
(***************************************************************************)
C3_PartialFailureIsolation ==
    \A k \in Invs :
        (/\ InvOver(k)
         /\ inv[k].articles # <<>>
         /\ BatchSize(k) >= 2 /\ BatchSize(k) <= MAX_ARTICLES
         /\ inv[k].failedDocs = 1
         /\ inv[k].failedCalls = MAX_RETRIES
         /\ inv[k].error # UpsertError)
        => /\ inv[k].pc = "done"
           /\ inv[k].error = ""
           /\ Len(inv[k].upserts) = 1
           /\ Len(inv[k].upserts[1]) = BatchSize(k) - 1
           /\ inv[k].calls = BatchSize(k) + MAX_RETRIES - 1

\* three documents, the failing one in the first group, two vectors upserted
C3_Witness ==
    /\ inv["i1"].pc = "done"
    /\ BatchSize("i1") = 3
    /\ inv["i1"].failedDocs = 1 /\ inv["i1"].failedCalls = MAX_RETRIES
    /\ Len(inv["i1"].upserts) = 1 /\ Len(inv["i1"].upserts[1]) = 2
    /\ Cardinality(index) >= 1

(***************************************************************************)
(* C4: when every embedding call of an invocation has failed, the          *)
(* invocation ends with the error 'No articles were successfully processed *)
(* for embeddings', it has made no upsert call and the index is untouched. *)
(***************************************************************************)
C4_AllFail ==
    \A k \in Invs :
        (/\ InvOver(k)
         /\ inv[k].calls >= 1
         /\ inv[k].failedCalls = inv[k].calls)
        => /\ inv[k].pc = "failed"
           /\ inv[k].error = NoArticlesError
           /\ inv[k].upserts = <<>>
           /\ index = {}

\* three documents in two groups, every one of the MAX_RETRIES attempts failed
C4_Witness ==
    /\ inv["i1"].pc = "failed"
    /\ Len(inv["i1"].articles) = 3
    /\ inv["i1"].calls = 3 * MAX_RETRIES
    /\ inv["i1"].failedCalls = inv["i1"].calls
    /\ inv["i1"].failedDocs = 3
    /\ inv["i1"].error = NoArticlesError

SameDocuments(r1, r2) == Range(run[r1].limited) = Range(run[r2].limited)

RanInSequence(r1, r2) ==
    /\ r1 # r2
    /\ r1 \in run[r2].predDone
    /\ run[r1].outcome = "ok"
    /\ run[r2].outcome = "ok"

SecondRunNoOp(r1, r2) ==
    /\ run[r2].batchKey = <<>>
    /\ run[r2].cacheLenAtEnd = run[r1].cacheLenAtEnd

IsSuffix(s, t) ==
    /\ Len(s) <= Len(t)
    /\ \A i \in 1..Len(s) : s[i] = t[Len(t) - Len(s) + i]

\* the hashes of a run's new articles that the persisted cache does not hold, in order
AddedTo(cache, articles) ==
    Dedup(SelectSeq([i \in 1..Len(articles) |-> generateUrlHash(articles[i].url)],
                    LAMBDA h : ~InSeq(h, cache)), <<>>)

CacheRewrittenBy(r) == run[r].pc = "cacheWrite" /\ run'[r].pc = "done" /\ bucket' # bucket

\* C5: the persisted cache never holds more than 10,000 hashes, and every rewrite of
\* the cache keeps the hashes just added and drops the oldest entries first: the new
\* cache is the tail of (old cache, then the added hashes) of length at most 10,000.
C5_CacheCap ==
    /\ [](Len(CacheItems(bucket)) <= CACHE_LIMIT)
    /\ [][\A r \in Runs : CacheRewrittenBy(r) =>
            /\ \A i \in 1..Len(run[r].newArticles) :
                   InSeq(generateUrlHash(run[r].newArticles[i].url), CacheItems(bucket'))
            /\ ~run[r].cacheFault =>
                 LET full == CacheItems(bucket) \o AddedTo(CacheItems(bucket), run[r].newArticles)
                 IN /\ IsSuffix(CacheItems(bucket'), full)
                    /\ Len(CacheItems(bucket')) = Min(Len(full), CACHE_LIMIT)]_vars

\* a rewrite at the cap has happened: the cache is full, holds a new hash last and
\* has lost its oldest entry
C5_Witness ==
    /\ Len(CacheItems(bucket)) = CACHE_LIMIT
    /\ CacheItems(bucket)[CACHE_LIMIT] = generateUrlHash(2)
    /\ CacheItems(bucket)[1] # generateUrlHash(OldUrl(1))
    /\ \E r \in Runs : run[r].pc = "done" /\ Len(run[r].newArticles) = 2 /\ ~run[r].cacheFault

(***************************************************************************)
(* C6: when the search has answered with zero results, the orchestrator    *)
(* has returned success = false and articlesFound = 0, and neither the     *)
(* generation client nor the delivery client has been called.              *)
(***************************************************************************)
C6_EmptySearchResult ==
    orch.hits = 0
    => /\ orch.pc = "done"
       /\ orch.result.returned
       /\ orch.result.success = FALSE
       /\ "articlesFound" \in DOMAIN orch.result /\ orch.result.articlesFound = 0
       /\ orch.result.message = NoArticlesMessage(orch.request.topic)
       /\ hist.generations = <<>>
       /\ hist.deliveries = <<>>

\* a non-empty index, and the search has answered without a match
C6_Witness ==
    /\ orch.hits = 0
    /\ orch.pc = "done"
    /\ index # {}
    /\ orch.request.recipients # <<>>

(***************************************************************************)
(* The parts <s> and <b> of a text of the form SUBJECT: <s> LF BODY: LF <b> *)
(***************************************************************************)
FirstLineFeed(t) == CHOOSE i \in 3..Len(t) : t[i] = "\n" /\ \A j \in 3..(i - 1) : t[j] # "\n"

Formed(t) ==
    /\ Len(t) >= 7
    /\ t[1] = "SUBJECT:" /\ t[2] = " "
    /\ \E i \in 4..Len(t) : t[i] = "\n"
    /\ t[3] # "\n"
    /\ LET n == FirstLineFeed(t)
       IN Len(t) >= n + 3 /\ t[n + 1] = "BODY:" /\ t[n + 2] = "\n"

FormedSubject(t) == SubSeq(t, 3, FirstLineFeed(t) - 1)
FormedBody(t) == SubSeq(t, FirstLineFeed(t) + 3, Len(t))

RoundTrip(t) ==
    /\ orch.caught # ParseError
    /\ orch.subject = FormedSubject(t)
    /\ orch.body = FormedBody(t)
    /\ Len(hist.deliveries) = 1
    /\ hist.deliveries[1].subject = FormedSubject(t)
    /\ hist.deliveries[1].body = FormedBody(t)

(***************************************************************************)
(* C7 as stated: when the generation client has answered with a text of    *)
(* the form SUBJECT: <s> LF BODY: LF <b> (s a non-empty line, b non-empty), *)
(* the parsed subject is s, the parsed body is b, and the delivery client  *)
(* has been called exactly once with these two values.                     *)
(***************************************************************************)
C7_Original ==
    (orch.gotText /\ Formed(orch.generatedContent)) => RoundTrip(orch.generatedContent)

(***************************************************************************)
(* C7: when the generation client has answered with a text of the form     *)
(* SUBJECT: <s> LF BODY: LF <b>, where s is a non-empty line without       *)
(* leading or trailing whitespace and without the BODY: marker (in either  *)
(* case), and b is non-empty without leading or trailing whitespace, the   *)
(* parsed subject is s, the parsed body is b, and the delivery client has  *)
(* been called exactly once with these two values.                         *)
(***************************************************************************)
C7_FormatRoundTrip ==
    (/\ orch.gotText
     /\ Formed(orch.generatedContent)
     /\ trim(FormedSubject(orch.generatedContent)) = FormedSubject(orch.generatedContent)
     /\ trim(FormedBody(orch.generatedContent)) = FormedBody(orch.generatedContent)
     /\ \A i \in 1..Len(FormedSubject(orch.generatedContent)) :
           ~IsBodyMarker(FormedSubject(orch.generatedContent)[i]))
    => RoundTrip(orch.generatedContent)

\* the subject holds the SUBJECT: marker, the body the BODY: marker, and the
\* email is sent
C7_Witness ==
    /\ orch.pc = "done"
    /\ orch.result.success
    /\ orch.generatedContent = Format(<<"subject:", "x">>, <<"body:", "x">>)
    /\ hist.deliveries = <<[to |-> <<"a@x", "b@x">>, subject |-> <<"subject:", "x">>,
                            body |-> <<"body:", "x">>, isHtml |-> TRUE]>>

(***************************************************************************)
(* C8: when the generation client has answered with a text without the     *)
(* BODY: marker or without the SUBJECT: marker, the orchestrator has       *)
(* returned success = false with a message that holds the text of the      *)
(* parse failure, and the delivery client has not been called.             *)
(***************************************************************************)
HasSubjectMarker(t) == \E i \in 1..Len(t) : IsSubjectMarker(t[i])
HasBodyMarker(t) == \E i \in 1..Len(t) : IsBodyMarker(t[i])

C8_ParseFailureSurfaced ==
    (/\ orch.gotText
     /\ (~HasBodyMarker(orch.generatedContent) \/ ~HasSubjectMarker(orch.generatedContent)))
    => /\ orch.pc = "done"
       /\ orch.result.returned
       /\ orch.result.success = FALSE
       /\ InSeq(ParseError.message, orch.result.message)
       /\ hist.deliveries = <<>>

\* a subject line without the BODY: marker
C8_Witness ==
    /\ orch.pc = "done"
    /\ orch.generatedContent = <<"SUBJECT:", " ", "x">>
    /\ orch.failedAt = "parse"
    /\ hist.deliveries = <<>>

(***************************************************************************)
(* C9: when the search has answered with k >= 1 results, the generated     *)
(* text was parsed and the delivery client has answered with an            *)
(* identifier, the orchestrator has returned success = true, articlesFound *)
(* = k, emailSent = true and that identifier as messageId, and there was   *)
(* exactly one delivery call, to all the recipients of the request.        *)
(***************************************************************************)
C9_SuccessfulRunResult ==
    (orch.hits >= 1 /\ orch.messageId # "")
    => /\ orch.pc = "done"
       /\ orch.result = [returned |-> TRUE, success |-> TRUE, message |-> SuccessMessage,
                         articlesFound |-> orch.hits, emailSent |-> TRUE,
                         messageId |-> orch.messageId]
       /\ orch.hits = Len(orch.searchResults)
       /\ Len(hist.deliveries) = 1
       /\ hist.deliveries[1].to = orch.request.recipients
       /\ hist.deliveries[1].subject = orch.subject
       /\ hist.deliveries[1].body = orch.body

\* two results, two recipients, an identifier from the delivery backend
C9_Witness ==
    /\ orch.pc = "done"
    /\ orch.hits = 2
    /\ orch.request.recipients = <<"a@x", "b@x">>
    /\ orch.messageId = "m-1"
    /\ orch.result.success
    /\ orch.result.articlesFound = 2

(***************************************************************************)
(* C10: the orchestrator never throws to its caller; whenever a step has   *)
(* failed (a parameter fetch, the embedding, the search, the generation,   *)
(* the parse or the delivery), it has returned a result with success =     *)
(* false and a message that holds the message of the error.                *)
(***************************************************************************)
FailureSteps == {"fetchKey", "fetchFrom", "embed", "search", "generate", "parse", "deliver"}

C10_NeverThrows ==
    /\ ~orch.threw
    /\ orch.pc = "done" => orch.result.returned
    /\ orch.caught # NoError
       => /\ orch.pc = "done"
          /\ orch.failedAt \in FailureSteps
          /\ orch.result.returned
          /\ orch.result.success = FALSE
          /\ InSeq(orch.caught.message, orch.result.message)

\* the delivery has failed after a successful parse
C10_Witness ==
    /\ orch.pc = "done"
    /\ orch.failedAt = "deliver"
    /\ orch.caught \in DeliveryErrors
    /\ Len(hist.deliveries) = 1
    /\ orch.result.success = FALSE

(***************************************************************************)
(* C11: in every run the calls of the clients are a prefix of embed,       *)
(* search, generate, deliver (fixed order, each at most once, no way       *)
(* back); generate is called only after a non-empty search result and      *)
(* deliver only after a successful parse; and a call is never made once a  *)
(* step has failed or the run is done.                                     *)
(***************************************************************************)
CallOrder == <<"embed", "search", "generate", "deliver">>

IsPrefix(s, t) == Len(s) <= Len(t) /\ \A i \in 1..Len(s) : s[i] = t[i]

C11_StateMachine ==
    /\ [](/\ IsPrefix(hist.calls, CallOrder)
          /\ InSeq("generate", hist.calls) => orch.hits >= 1
          /\ InSeq("deliver", hist.calls)
                => /\ orch.gotText
                   /\ subjectMatch(orch.generatedContent).found
                   /\ bodyMatch(orch.generatedContent).found)
    /\ [][hist'.calls # hist.calls
            => /\ orch.caught = NoError
               /\ orch.pc # "done"
               /\ Len(hist'.calls) = Len(hist.calls) + 1]_vars

\* a run that has made the four calls and is done
C11_Witness ==
    /\ orch.pc = "done"
    /\ hist.calls = CallOrder
    /\ orch.result.success

(***************************************************************************)
(* C12 as stated: when the handler of a storage event is over, every       *)
(* record was processed exactly once and in order, whatever the outcome of *)
(* the records before it, and the handler has failed if and only if the    *)
(* event had at least one record and all records failed.                   *)
(***************************************************************************)
AllRecordsFailed ==
    /\ Len(rag.results) >= 1
    /\ \A i \in 1..Len(rag.results) : ~rag.results[i].success

EveryRecordOnce ==
    /\ hist.executions = rag.records
    /\ Len(rag.results) = Len(rag.records)
    /\ \A i \in 1..Len(rag.records) : rag.results[i].key = rag.records[i]

C12_Original ==
    RagOver => /\ EveryRecordOnce
               /\ rag.pc = "failed" <=> AllRecordsFailed

(***************************************************************************)
(* C12: when the handler of a storage event is over and the fetch of the   *)
(* API key parameter at its start has succeeded, every record was          *)
(* processed exactly once and in order, whatever the outcome of the        *)
(* records before it, and the handler has failed if and only if the event  *)
(* had at least one record and all records failed.  While the handler      *)
(* runs, the records processed so far are the first records of the event.  *)
(***************************************************************************)
C12_RecordIsolation ==
    /\ IsPrefix(hist.executions, rag.records)
    /\ (RagOver /\ rag.keyFetched)
       => /\ EveryRecordOnce
          /\ rag.pc = "failed" <=> AllRecordsFailed

\* the first record has failed, the second one was processed and has succeeded
C12_Witness ==
    /\ rag.pc = "done"
    /\ Len(rag.records) = 2
    /\ ~rag.results[1].success
    /\ rag.results[2].success
    /\ hist.executions = rag.records

(***************************************************************************)
(* C13: zero-new no-op.  When the hash of every candidate document is in   *)
(* the persisted cache at the moment the run filters its candidates, or    *)
(* the source returned no documents, the run ends successfully and has     *)
(* issued no upload: no batch blob, no rewrite of the cache blob.          *)
(***************************************************************************)
Filtered(r) == run[r].pc \notin {"idle", "fetch", "filter"}

NoOp(r) ==
    /\ run[r].pc = "done"
    /\ run[r].outcome = "ok"
    /\ run[r].puts = 0
    /\ run[r].batchKey = <<>>

WrittenBatches == {run[q].newArticles : q \in {x \in Runs : run[x].batchKey # <<>>}}

InWrittenBatch(h) ==
    \E batch \in WrittenBatches :
       \E i \in 1..Len(batch) : generateUrlHash(batch[i].url) = h

C14_NeverLost ==
    /\ [](\A h \in Range(CacheItems(bucket)) : InWrittenBatch(h))
    /\ [][CacheItems(bucket') # CacheItems(bucket)
            => \E r \in Runs : /\ run[r].pc = "cacheWrite"
                                /\ run'[r].pc = "done"
                                /\ run[r].batchKey # <<>>]_vars

\* the cache holds the hashes of both urls while one run has failed on its
\* batch upload
C14_Witness ==
    /\ \A u \in Urls : InSeq(generateUrlHash(u), CacheItems(bucket))
    /\ \E r \in Runs : run[r].failedAt = "uploadJson"

(***************************************************************************)
(* C15: concurrent ingestion race.  Once two overlapping runs have both    *)
(* ended successfully, every candidate document of either run whose hash   *)
(* was not in the cache when that run started is stored in at least one    *)
(* batch blob of the bucket.                                               *)
(***************************************************************************)
Overlapping(r, q) == r # q /\ q \notin run[r].predDone /\ r \notin run[q].predDone

\* a document is identified by its url
Persisted(article) ==
    \E key \in BatchKeys(bucket) : \E j \in 1..Len(bucket[key].items) :
       bucket[key].items[j].url = article.url

BothSucceeded ==
    /\ Overlapping("r1", "r2")
    /\ \A r \in Runs : run[r].pc = "done" /\ run[r].outcome = "ok"

C15_ConcurrentRace ==
    BothSucceeded =>
       \A r \in Runs : \A i \in 1..Len(run[r].limited) :
          generateUrlHash(run[r].limited[i].url) \notin run[r].cacheAtStart
             => Persisted(run[r].limited[i])

\* both runs uploaded their batch under the same key: the batch of one run
\* is gone, and the hash of its document is in the cache
C15_Lost ==
    /\ BothSucceeded
    /\ run["r1"].batchKey # <<>>
    /\ run["r1"].batchKey = run["r2"].batchKey
    /\ \E r \in Runs : \E i \in 1..Len(run[r].limited) :
          /\ ~Persisted(run[r].limited[i])
          /\ InSeq(generateUrlHash(run[r].limited[i].url), CacheItems(bucket))

(***************************************************************************)
(* C16: upserts of two embedding invocations commute and are idempotent:   *)
(* whichever of the two upserts is applied first, the index ends with the  *)
(* same ids and the same record under each id, and an upsert applied twice *)
(* gives the index it gives when applied once.                             *)
(***************************************************************************)
\* the invocation has settled every embedding call: its vectors are those it upserts
VectorsReady(k) == inv[k].pc \in {"upsert", "done"} /\ inv[k].vectors # <<>>

Ids(idx) == {r.id : r \in idx}

Indexes == {{}, index}

Commute(idx, v1, v2) == upsert(upsert(idx, v1), v2) = upsert(upsert(idx, v2), v1)

SameIds(idx, v1, v2) == Ids(upsert(upsert(idx, v1), v2)) = Ids(upsert(upsert(idx, v2), v1))

Idempotent(idx, v) == upsert(upsert(idx, v), v) = upsert(idx, v)

\* no id is carried with two different records
Agree(v1, v2) ==
    \A i \in 1..Len(v1) : \A j \in 1..Len(v2) : v1[i].id = v2[j].id => v1[i] = v2[j]

\* as stated: for any two batches
C16_Original ==
    (VectorsReady("i1") /\ VectorsReady("i2")) =>
       \A idx \in Indexes : Commute(idx, inv["i1"].vectors, inv["i2"].vectors)

\* amended: the records commute when the batches agree on every id they share
C16_UpsertCommutative ==
    \A idx \in Indexes :
       /\ \A k \in Invs : VectorsReady(k) => Idempotent(idx, inv[k].vectors)
       /\ (VectorsReady("i1") /\ VectorsReady("i2")) =>
             /\ SameIds(idx, inv["i1"].vectors, inv["i2"].vectors)
             /\ Agree(inv["i1"].vectors \o inv["i2"].vectors,
                      inv["i1"].vectors \o inv["i2"].vectors)
                   => Commute(idx, inv["i1"].vectors, inv["i2"].vectors)

\* both invocations have upserted, their batches differ and share a url with
\* the same content
C16_Witness ==
    /\ \A k \in Invs : inv[k].pc = "done" /\ inv[k].vectors # <<>>
    /\ inv["i1"].vectors # inv["i2"].vectors
    /\ Agree(inv["i1"].vectors \o inv["i2"].vectors, inv["i1"].vectors \o inv["i2"].vectors)
    /\ \E i \in 1..Len(inv["i1"].vectors) : \E j \in 1..Len(inv["i2"].vectors) :
          inv["i1"].vectors[i].id = inv["i2"].vectors[j].id
    /\ Cardinality(index) = 2

(***************************************************************************)
(* C17: a dimension mismatch is per record.  When an invocation has built  *)
(* a vector whose length differs from the dimension of the index next to   *)
(* vectors of the right length, and the invocation is over without any     *)
(* other failure, it has not failed, the vectors of the right length are   *)
(* in the index and the mismatched one is not.                             *)
(***************************************************************************)
Fits(v) == v.values.length = INDEX_DIMENSION

Mismatched(k) == {v \in Range(inv[k].vectors) : ~Fits(v)}

Fitting(k) == {v \in Range(inv[k].vectors) : Fits(v)}

C17_DimensionPerRecord ==
    \A k \in Invs :
       (InvOver(k) /\ Mismatched(k) # {} /\ Fitting(k) # {})
          => /\ inv[k].pc = "done"
             /\ Fitting(k) \subseteq index
             /\ Mismatched(k) \cap index = {}

\* one vector of another length among vectors of the right length: the upsert call
\* is rejected, the invocation has failed and the index has none of its records
C17_BatchFailed ==
    /\ inv["i1"].pc = "failed"
    /\ inv["i1"].error = UpsertError
    /\ Cardinality(Mismatched("i1")) = 1
    /\ Fitting("i1") # {}
    /\ index = {}

(***************************************************************************)
(* C18: a failure of the document source propagates.  A run whose          *)
(* searchNews call has failed rejects, has called the source once, and has *)
(* written nothing: no upload was issued, and the step in which the call   *)
(* fails leaves the bucket as it is.                                       *)
(***************************************************************************)
SourceFailed(r) == run[r].failedAt = "searchNews"

C18_SourceFailurePropagates ==
    /\ [](\A r \in Runs :
            SourceFailed(r) => /\ run[r].pc = "failed"
                               /\ run[r].outcome = "threw"
                               /\ run[r].fetches = 1
                               /\ run[r].puts = 0
                               /\ run[r].batchKey = <<>>)
    /\ [][\A r \in Runs :
            (~SourceFailed(r) /\ run'[r].failedAt = "searchNews") => bucket' = bucket]_vars

\* the source failed for one run after another run had written its batch and the
\* cache: the bucket holds those two blobs only
C18_Witness ==
    \E r \in Runs :
       /\ SourceFailed(r)
       /\ run[r].pc = "failed"
       /\ run[r].predDone # {}
       /\ Cardinality(DOMAIN bucket) = 2

(***************************************************************************)
(* C19: a failure of the cache update is swallowed.  Once a run has        *)
(* written its batch blob, no step of the cache update makes it reject or  *)
(* touches the batch blob, whether the read and the write of the cache     *)
(* fail or not: the run ends successfully.                                 *)
(***************************************************************************)
InCacheUpdate(r) == run[r].pc \in {"cacheRead", "cacheWrite"}

BatchWritten(r) == run[r].batchKey # <<>>

C19_CacheFailureSwallowed ==
    /\ [](\A r \in Runs :
            (BatchWritten(r) /\ RunOver(r)) => run[r].pc = "done" /\ run[r].outcome = "ok")
    /\ [][\A r \in Runs :
            (InCacheUpdate(r) /\ run'[r] # run[r])
               => /\ run'[r].pc \in {"cacheWrite", "done"}
                  /\ run'[r].outcome # "threw"
                  /\ run[r].batchKey \in DOMAIN bucket'
                  /\ bucket'[run[r].batchKey] = bucket[run[r].batchKey]]_vars

\* a run ended successfully although the write of the cache failed: its batch is
\* in the bucket and the cache blob was never written
C19_Witness ==
    \E r \in Runs :
       /\ run[r].pc = "done" /\ run[r].outcome = "ok"
       /\ BatchWritten(r)
       /\ run[r].cacheFault
       /\ bucket[run[r].batchKey] = JSONstringify(run[r].newArticles)
       /\ CacheKey \notin DOMAIN bucket

(***************************************************************************)
(* C20: a missing cache is the empty set.  A run that filters its          *)
(* candidates while the bucket has no cache blob does not fail there:      *)
(* every candidate is new, the run goes on to upload all of them as its    *)
(* batch (or ends successfully when the page is empty), and it can only    *)
(* reject when that upload fails.                                          *)
(***************************************************************************)
C20_MissingCacheIsEmpty ==
    /\ [](\A r \in Runs :
            (Filtered(r) /\ run[r].missingAtFilter)
               => /\ run[r].newArticles = run[r].limited
                  /\ run[r].failedAt \in {"none", "uploadJson"}
                  /\ run[r].limited = <<>> => NoOp(r)
                  /\ run[r].limited # <<>> => run[r].puts >= 1
                  /\ (run[r].pc = "done" /\ run[r].limited # <<>>) => BatchWritten(r))
    /\ [][\A r \in Runs :
            (run[r].missingAtFilter /\ run[r].pc = "upload" /\ run'[r].pc = "cacheRead")
               => bucket'[run'[r].batchKey] = JSONstringify(run[r].limited)]_vars

\* a run that found no cache blob has written its whole page as a batch and ended
\* successfully
C20_Witness ==
    \E r \in Runs :
       /\ run[r].missingAtFilter
       /\ run[r].pc = "done" /\ run[r].outcome = "ok"
       /\ Len(run[r].limited) = MaxFetched
       /\ BatchWritten(r)
       /\ bucket[run[r].batchKey] = JSONstringify(run[r].limited)

(***************************************************************************)
(* C21: a batch blob that is not valid JSON, or whose JSON value is not an *)
(* array, is fatal.  An invocation that has left the read of such a blob   *)
(* has failed, with the error of the parse step (or of the read itself),   *)
(* no embedding call and no upsert call has been made, and the index is    *)
(* as it was.                                                              *)
(***************************************************************************)
BlobOf(k) == bucket[inv[k].objectKey]

Unparsable(k) == ~BlobOf(k).valid \/ ~BlobOf(k).isArray

HasRead(k) == inv[k].pc \notin {"idle", "getObject"}

C21_ParseFailureFatal ==
    \A k \in Invs :
       (HasRead(k) /\ Unparsable(k))
          => /\ inv[k].pc = "failed"
             /\ inv[k].error \in {GetObjectError,
                                   IF ~BlobOf(k).valid THEN InvalidJsonError
                                   ELSE NotArrayError}
             /\ inv[k].calls = 0
             /\ inv[k].upserts = <<>>
             /\ index = {}

\* the blob was read and parsed to a value that is not an array
C21_Witness ==
    /\ inv["i1"].pc = "failed"
    /\ inv["i1"].error = NotArrayError
    /\ BlobOf("i1").valid /\ ~BlobOf("i1").isArray
    /\ inv["i1"].calls = 0

(***************************************************************************)
(* C22: the orchestrator mutates nothing but the outbox.  No step of a run *)
(* changes the vector index or the blob store, whether the run ends with   *)
(* an email, with no article found, or with a failure.                     *)
(***************************************************************************)
C22_NoMutation == [][index' = index /\ bucket' = bucket]_vars

\* a run over a non-empty index has sent its email
C22_Witness ==
    /\ orch.pc = "done"
    /\ orch.result.success
    /\ Len(hist.deliveries) = 1
    /\ index # {}
    /\ bucket = <<>>

(***************************************************************************)
(* C23: recipients are non-empty.  The delivery client is never called     *)
(* with an empty recipient list, and a request whose recipient list is     *)
(* empty never gets to the delivery step.                                  *)
(***************************************************************************)
C23_RecipientsNonEmpty ==
    /\ \A i \in 1..Len(hist.deliveries) : Len(hist.deliveries[i].to) >= 1
    /\ (orch.pc # "idle" /\ orch.request.recipients = <<>>)
          => orch.pc # "deliver" /\ ~InSeq("deliver", hist.calls)

\* a request without recipients went through the search and the generation, the
\* delivery client was called with no recipient, and the run ended with its failure
C23_EmptyDelivery ==
    /\ orch.pc = "done"
    /\ orch.request.recipients = <<>>
    /\ Len(hist.deliveries) = 1
    /\ hist.deliveries[1].to = <<>>
    /\ orch.failedAt = "deliver"

(***************************************************************************)
(* C24: exhausting the retries of a document fails that document only.     *)
(* The one upsert call of an invocation carries, in batch order, one       *)
(* vector for every processed document one of whose embedding calls        *)
(* succeeded and none for a document whose calls all failed, and an        *)
(* invocation with a surviving document does not throw.                    *)
(***************************************************************************)
RECURSIVE Survivors(_, _)
Survivors(st, p) ==
    IF p > Len(st.docs) THEN <<>>
    ELSE (IF st.docs[p].st = "fulfilled"
          THEN <<VectorRecord(st.articles[p], st.objectKey, p - 1)>>
          ELSE <<>>) \o Survivors(st, p + 1)

SomeSurvived(k) == \E p \in 1..Len(inv[k].docs) : inv[k].docs[p].st = "fulfilled"

SomeDropped(k) == \E p \in 1..Len(inv[k].docs) : inv[k].docs[p].st = "dropped"

UpsertIsSurvivors(k) == inv[k].upserts = <<Survivors(inv[k], 1)>>

\* as stated: whatever becomes of the upsert call
C24_Original ==
    \A k \in Invs :
       (InvOver(k) /\ SomeSurvived(k)) => inv[k].pc = "done" /\ UpsertIsSurvivors(k)

\* amended: the invocation does not throw when the upsert call succeeds
C24_RetryExhaustionIsolated ==
    \A k \in Invs :
       /\ inv[k].upserts # <<>> => UpsertIsSurvivors(k)
       /\ (InvOver(k) /\ SomeSurvived(k))
             => /\ UpsertIsSurvivors(k)
                /\ inv[k].error \in {"", UpsertError}
                /\ inv[k].error = "" <=> inv[k].pc = "done"
                /\ inv[k].pc = "done" => Survivors(inv[k], 1) = inv[k].vectors

\* three documents, the second dropped after its retries, the other two upserted
C24_Witness ==
    /\ inv["i1"].pc = "done"
    /\ Len(inv["i1"].docs) = 3
    /\ inv["i1"].docs[2].st = "dropped"
    /\ inv["i1"].docs[2].attempts = MAX_RETRIES
    /\ Len(inv["i1"].upserts[1]) = 2
    /\ Cardinality(index) = 2

(***************************************************************************)
(* C25: bounded concurrency with a group barrier.  At every moment of an   *)
(* invocation at most CONCURRENCY documents have an embedding call in      *)
(* flight, and a document has had an embedding call only if every document *)
(* of the groups before its own has settled (embedded, or dropped after    *)
(* its retries).                                                           *)
(***************************************************************************)
InFlight(k) == {p \in 1..Len(inv[k].docs) : inv[k].docs[p].st = "calling"}

Group(p) == (p - 1) \div CONCURRENCY

HasSettled(k, p) == inv[k].docs[p].st \in {"fulfilled", "dropped"}

C25_GroupBarrier ==
    \A k \in Invs :
       /\ Cardinality(InFlight(k)) <= CONCURRENCY
       /\ \A p, q \in 1..Len(inv[k].docs) :
             (inv[k].docs[p].attempts >= 1 /\ Group(q) < Group(p)) => HasSettled(k, q)

\* the document of the second group is being embedded after one document of the
\* first group was embedded and the other dropped
C25_Witness ==
    /\ Len(inv["i1"].docs) = CONCURRENCY + 1
    /\ InFlight("i1") = {CONCURRENCY + 1}
    /\ \E p, q \in 1..CONCURRENCY :
          inv["i1"].docs[p].st = "fulfilled" /\ inv["i1"].docs[q].st = "dropped"

(***************************************************************************)
(* C26: the upsert comes last and once.  An invocation calls upsert at     *)
(* most once; when it does, every document of the batch has settled, no    *)
(* embedding call is in flight, the call carries all surviving vectors,    *)
(* and no embedding call is made from then on.                             *)
(***************************************************************************)
AllSettled(k) == \A p \in 1..Len(inv[k].docs) : HasSettled(k, p)

C26_UpsertAfterAllSettled ==
    /\ [](\A k \in Invs :
            /\ Len(inv[k].upserts) <= 1
            /\ inv[k].upserts # <<>>
                  => /\ AllSettled(k)
                     /\ Len(inv[k].docs) = Len(inv[k].articles)
                     /\ UpsertIsSurvivors(k)
                     /\ inv[k].upserts[1] = inv[k].vectors)
    /\ [][\A k \in Invs :
            inv[k].upserts # <<>>
               => /\ inv'[k].calls = inv[k].calls
                  /\ inv'[k].docs = inv[k].docs
                  /\ inv'[k].upserts = inv[k].upserts]_vars

\* the upsert was made after the three documents of two groups had settled, one of
\* them by its second attempt
C26_Witness ==
    /\ inv["i1"].pc = "done"
    /\ Len(inv["i1"].docs) = 3
    /\ Len(inv["i1"].upserts) = 1
    /\ Len(inv["i1"].upserts[1]) = 3
    /\ inv["i1"].docs[1].attempts = MAX_RETRIES
    /\ inv["i1"].calls = 4

(***************************************************************************)
(* C27: bounded retry.  For every document the embedding client is called  *)
(* at least once and at most MAX_RETRIES times; a further call is made     *)
(* only in the step in which the call before it fails, never after a       *)
(* successful one, and a document is dropped only by the failure of its    *)
(* last allowed call.                                                      *)
(***************************************************************************)
Doc(k, p) == inv[k].docs[p]

C27_BoundedRetry ==
    /\ [](\A k \in Invs : \A p \in 1..Len(inv[k].docs) :
            /\ Doc(k, p).attempts <= MAX_RETRIES
            /\ Doc(k, p).st # "waiting" => Doc(k, p).attempts >= 1
            /\ Doc(k, p).st = "dropped" => Doc(k, p).attempts = MAX_RETRIES
            /\ inv[k].upserts # <<>> => Doc(k, p).attempts >= 1)
    /\ [][\A k \in Invs : \A p \in 1..Len(inv[k].docs) :
            p \in 1..Len(inv'[k].docs) =>
              /\ Doc(k, p).st \in {"fulfilled", "dropped"} => inv'[k].docs[p] = Doc(k, p)
              /\ (Doc(k, p).attempts >= 1 /\ inv'[k].docs[p].attempts # Doc(k, p).attempts)
                    => /\ inv'[k].docs[p].attempts = Doc(k, p).attempts + 1
                       /\ Doc(k, p).st = "calling"
                       /\ inv'[k].failedCalls = inv[k].failedCalls + 1
              /\ (Doc(k, p).st = "calling" /\ inv'[k].docs[p].st = "dropped")
                    => /\ Doc(k, p).attempts = MAX_RETRIES
                       /\ inv'[k].failedCalls = inv[k].failedCalls + 1]_vars

\* one document embedded by its first call, one by its second, one dropped after
\* MAX_RETRIES failed calls
C27_Witness ==
    /\ InvOver("i1")
    /\ \E p, q, s \in 1..Len(inv["i1"].docs) :
          /\ Doc("i1", p).st = "fulfilled" /\ Doc("i1", p).attempts = 1
          /\ Doc("i1", q).st = "fulfilled" /\ Doc("i1", q).attempts = MAX_RETRIES
          /\ Doc("i1", s).st = "dropped" /\ Doc("i1", s).attempts = MAX_RETRIES

(***************************************************************************)
(* C28: per-invocation cap.  Whatever the length of the batch, only its    *)
(* first MAX_ARTICLES documents are processed: every embedding call is for *)
(* one of them, the upsert holds at most MAX_ARTICLES vectors, and an      *)
(* invocation over a longer batch ends without an error when nothing else  *)
(* fails.                                                                  *)
(***************************************************************************)
RECURSIVE SumAttempts(_, _)
SumAttempts(docs, p) ==
    IF p > Len(docs) THEN 0 ELSE docs[p].attempts + SumAttempts(docs, p + 1)

C28_PerInvocationCap ==
    \A k \in Invs :
       (HasRead(k) /\ ~Unparsable(k) /\ inv[k].error # GetObjectError)
          => /\ inv[k].articles = SubSeq(BlobOf(k).items, 1, Min(MAX_ARTICLES, BatchSize(k)))
             /\ Len(inv[k].docs) <= MAX_ARTICLES
             /\ inv[k].calls = SumAttempts(inv[k].docs, 1)
             /\ \A u \in 1..Len(inv[k].upserts) : Len(inv[k].upserts[u]) <= MAX_ARTICLES
             /\ \A v \in index : v.metadata.url <= MAX_ARTICLES
             /\ (InvOver(k) /\ inv[k].failedDocs = 0 /\ inv[k].error # UpsertError)
                   => inv[k].pc = "done" /\ inv[k].error = ""

\* a batch of more than MAX_ARTICLES documents: MAX_ARTICLES calls were made,
\* MAX_ARTICLES vectors upserted, and the invocation ended without an error
C28_Witness ==
    /\ inv["i1"].pc = "done"
    /\ BatchSize("i1") > MAX_ARTICLES
    /\ inv["i1"].calls = MAX_ARTICLES
    /\ Cardinality(index) = MAX_ARTICLES

(***************************************************************************)
(* C29: the content of a batch blob.  The blob a run writes holds exactly  *)
(* the documents, among the first pageSize the source returned, whose url  *)
(* hash is not in the cache the run has loaded (the empty set when the     *)
(* cache blob is missing or its read fails), in the order of the source:   *)
(* at most pageSize documents, none with a hash of the loaded cache.       *)
(***************************************************************************)
\* the cache a run has got when it filtered its page in the step to the next state
LoadedBy(r) ==
    IF run'[r].filterFault \/ run'[r].missingAtFilter THEN <<>> ELSE CacheItems(bucket)

NotIn(processedUrls, articles) ==
    SelectSeq(articles, LAMBDA a : generateUrlHash(a.url) \notin Range(processedUrls))

C29_BatchContent ==
    /\ [](/\ \A r \in Runs : Len(run[r].limited) <= run[r].pageSize
          /\ \A articles \in SeqsUpTo(Feed, MaxFetched) : \A ps \in 1..MaxFetched :
                /\ Len(SliceFirst(articles, ps)) = Min(ps, Len(articles))
                /\ \A i \in 1..Min(ps, Len(articles)) :
                      SliceFirst(articles, ps)[i] = articles[i])
    /\ [][\A r \in Runs :
            /\ (run[r].pc = "filter" /\ run'[r].pc # "filter")
                  => run'[r].newArticles = NotIn(LoadedBy(r), run[r].limited)
            /\ (run[r].pc = "upload" /\ run'[r].pc = "cacheRead")
                  => /\ bucket'[run'[r].batchKey] = JSONstringify(run[r].newArticles)
                     /\ run[r].newArticles # <<>>
                     /\ Len(run[r].newArticles) <= run[r].pageSize]_vars

\* a run whose page held a cached and a new document has written the new one alone
C29_Witness ==
    \E r \in Runs :
       /\ run[r].pc = "done" /\ BatchWritten(r)
       /\ ~run[r].filterFault /\ ~run[r].missingAtFilter
       /\ run[r].pageSize = 2
       /\ Len(run[r].limited) = 2
       /\ run[r].newArticles = <<run[r].limited[2]>>
       /\ bucket[run[r].batchKey].items = run[r].newArticles

(***************************************************************************)
(* C30: distinguishing batch key.  No two runs write their batch under the *)
(* same key, so that no run replaces the batch blob of another run.        *)
(***************************************************************************)
C30_DistinguishingKey ==
    \A r, q \in Runs :
       (r # q /\ BatchWritten(r) /\ BatchWritten(q)) => run[r].batchKey # run[q].batchKey

\* two overlapping runs have read the same millisecond: both batches went under one
\* key, and the bucket holds the batch of one of them only
C30_Overwritten ==
    /\ Overlapping("r1", "r2")
    /\ BatchWritten("r1") /\ BatchWritten("r2")
    /\ run["r1"].batchKey = run["r2"].batchKey
    /\ run["r1"].newArticles # run["r2"].newArticles
    /\ Cardinality(BatchKeys(bucket)) = 1
    /\ \E r \in Runs : bucket[run[r].batchKey] # JSONstringify(run[r].newArticles)

FirstSubjectMarker(t) ==
    CHOOSE p \in 1..Len(t) : IsSubjectMarker(t[p]) /\ \A r \in 1..(p - 1) : ~IsSubjectMarker(t[r])

FirstBodyMarker(t) ==
    CHOOSE p \in 1..Len(t) : IsBodyMarker(t[p]) /\ \A r \in 1..(p - 1) : ~IsBodyMarker(t[r])

\* the position of the first line feed after position p, or the position after
\* the last character
LineEnd(t, p) ==
    LET ends == {i \in (p + 1)..Len(t) : t[i] = "\n"} \cup {Len(t) + 1}
    IN CHOOSE i \in ends : \A j \in ends : i <= j

\* t from its first to its last character that is no white space
Trimmed(t) ==
    LET ink == {i \in 1..Len(t) : ~IsSpace(t[i])}
    IN IF ink = {} THEN <<>>
       ELSE SubSeq(t, CHOOSE i \in ink : \A j \in ink : i <= j,
                      CHOOSE i \in ink : \A j \in ink : j <= i)

\* the trimmed text between the SUBJECT: marker and the next line feed
StatedSubject(t) ==
    Trimmed(SubSeq(t, FirstSubjectMarker(t) + 1, LineEnd(t, FirstSubjectMarker(t)) - 1))

\* the trimmed text from after the BODY: marker to the end of the output
StatedBody(t) == Trimmed(SubSeq(t, FirstBodyMarker(t) + 1, Len(t)))

ParsedAsStated(t) ==
    /\ orch.caught # ParseError
    /\ orch.subject = StatedSubject(t)
    /\ orch.body = StatedBody(t)

\* a character that is no white space stands between the SUBJECT: marker and
\* the next line feed
SubjectOnLine(t) ==
    \E i \in (FirstSubjectMarker(t) + 1)..(LineEnd(t, FirstSubjectMarker(t)) - 1) :
        ~IsSpace(t[i])

\* the output does not end with the first BODY: marker
BodyFollowed(t) == FirstBodyMarker(t) < Len(t)

InitSearch ==
    /\ bucket = <<>>
    /\ now = 0
    /\ run = [r \in Runs |-> RunIdle]
    /\ \E batch \in SeqsUpTo(Feed, MaxHits) : index = IndexOf(batch)
    /\ inv = [k \in Invs |-> InvIdle]
    /\ orch = OrchIdle
    /\ rag = RagIdle
    /\ hist = HistInit
    /\ loop = LoopIdle

SearchRequests ==
    [topic : Topics, recipients : {<<"a@x">>},
     maxArticles : (0..MaxHits) \cup (100..MaxRequested)]

SearchTexts == {Format(<<"x">>, <<"x">>), <<"x">>}

NextSearch == OrchStep(SearchRequests, SearchTexts)

SpecSearch == InitSearch /\ [][NextSearch]_vars

(***************************************************************************)
(* C32 as stated: every search the orchestrator has called has topK equal  *)
(* to the maxArticles of the request when it is given and 10 when it is    *)
(* omitted, has metadata inclusion on, and has a topK of at most 100.      *)
(***************************************************************************)
C32_TopKBounded ==
    \A i \in 1..Len(hist.searches) :
        /\ hist.searches[i].topK =
               (IF orch.request.maxArticles = 0 THEN 10 ELSE orch.request.maxArticles)
        /\ hist.searches[i].includeMetadata
        /\ hist.searches[i].topK <= 100

\* every search has the topK and the metadata inclusion of the claim
C32_TopKAsRequested ==
    \A i \in 1..Len(hist.searches) :
        /\ hist.searches[i].topK =
               (IF orch.request.maxArticles = 0 THEN 10 ELSE orch.request.maxArticles)
        /\ hist.searches[i].includeMetadata

\* a search with a topK above 100 has been called and the run has gone on to
\* its end
C32_Unbounded ==
    /\ orch.pc = "done"
    /\ orch.request.maxArticles > 100
    /\ Len(hist.searches) = 1
    /\ hist.searches[1].topK = orch.request.maxArticles
    /\ hist.searches[1].topK > 100

\* the documents of the batch blob stored under key k
BatchItems(k) == bucket[k].items

(***************************************************************************)
(* C33 as stated: no batch blob in the bucket contains two documents with  *)
(* the same url, also when the page of the document source held the same   *)
(* url twice.                                                              *)
(***************************************************************************)
C33_OneDocumentPerUrl ==
    \A k \in BatchKeys(bucket) :
       \A i, j \in 1..Len(BatchItems(k)) :
          i # j => BatchItems(k)[i].url # BatchItems(k)[j].url

\* a run whose page held one url twice, with two titles, has ended after
\* writing both documents into its batch blob
C33_TwiceInBatch ==
    \E r \in Runs :
       /\ run[r].pc = "done" /\ BatchWritten(r)
       /\ Len(run[r].limited) = 2
       /\ run[r].limited[1].url = run[r].limited[2].url
       /\ run[r].limited[1].title # run[r].limited[2].title
       /\ BatchItems(run[r].batchKey) = run[r].limited

\* the hashes of the urls of a batch
HashesOf(articles) == {generateUrlHash(articles[i].url) : i \in 1..Len(articles)}

(***************************************************************************)
(* C34 as stated: when a run that wrote a batch rewrites the cache, the    *)
(* persisted cache holds every hash it held when the run started (as long  *)
(* as the total stays within 10,000) and the hashes of all documents of    *)
(* the new batch, also when a read of the cache blob inside the run has    *)
(* failed.                                                                 *)
(***************************************************************************)
C34_CacheOnlyGrows ==
    [][\A r \in Runs :
         (/\ CacheWriteOk(r)
          /\ BatchWritten(r)
          /\ Cardinality(run[r].cacheAtStart \cup HashesOf(run[r].newArticles)) <= CACHE_LIMIT)
         => (run[r].cacheAtStart \cup HashesOf(run[r].newArticles))
               \subseteq Range(CacheItems(bucket'))]_vars

\* a run that started on a cache with a hash, wrote a batch and rewrote the
\* cache after a failed read has ended, and the persisted cache holds the
\* hashes of the batch only
C34_ForgottenHash ==
    \E r \in Runs :
       /\ run[r].pc = "done" /\ BatchWritten(r)
       /\ run[r].cacheFault
       /\ ~run[r].filterFault
       /\ run[r].cacheAtStart # {}
       /\ Range(CacheItems(bucket)) = HashesOf(run[r].newArticles)
       /\ \E h \in run[r].cacheAtStart : h \notin Range(CacheItems(bucket))

\* the batch blob of invocation k parses to an empty array
EmptyBatch(k) ==
    /\ BlobOf(k).valid /\ BlobOf(k).isArray
    /\ BlobOf(k).items = <<>>

\* every document of the batch of invocation k has failed
EveryDocumentFailed(k) ==
    /\ InvOver(k)
    /\ Len(inv[k].articles) >= 1
    /\ inv[k].failedDocs = Len(inv[k].articles)

(***************************************************************************)
(* C35: an embedding invocation that has got a batch blob which parses to  *)
(* an empty array has failed without an embedding call and without an      *)
(* upsert call, with the error 'No articles were successfully processed    *)
(* for embeddings'; an invocation in which every document failed has ended *)
(* with that same error.                                                   *)
(***************************************************************************)
C35_EmptyBatchFails ==
    \A k \in Invs :
       /\ (HasRead(k) /\ inv[k].error # GetObjectError /\ EmptyBatch(k))
          => /\ inv[k].pc = "failed"
             /\ inv[k].error = NoArticlesError
             /\ inv[k].calls = 0
             /\ inv[k].upserts = <<>>
             /\ index = {}
       /\ EveryDocumentFailed(k) => inv[k].error = NoArticlesError

\* the invocation has read an empty array and has failed
C35_Witness ==
    /\ HasRead("i1") /\ EmptyBatch("i1")
    /\ inv["i1"].pc = "failed"
    /\ inv["i1"].error = NoArticlesError
    /\ inv["i1"].calls = 0

\* the result reports emailSent = true
ReportsEmailSent(result) == "emailSent" \in DOMAIN result /\ result.emailSent

(***************************************************************************)
(* C36: once the orchestrator has returned its result, the result reports  *)
(* emailSent = true if and only if the delivery client call of the run has *)
(* returned successfully, and then it reports success = true and the       *)
(* messageId of that call; when it reports success = false, the mail       *)
(* service has accepted no message in the run.  Before the result, the     *)
(* mail service has accepted no message.                                   *)
(***************************************************************************)
C36_ResultMatchesDelivery ==
    /\ ~orch.result.returned => hist.sent = <<>>
    /\ orch.result.returned =>
          /\ ReportsEmailSent(orch.result) <=> Len(hist.sent) = 1
          /\ Len(hist.sent) <= 1
          /\ ReportsEmailSent(orch.result) =>
                /\ orch.result.success
                /\ orch.result.messageId = hist.sent[1].messageId
                /\ hist.sent[1].to = orch.request.recipients
          /\ ~orch.result.success => hist.sent = <<>>

\* a run whose delivery call has failed reports success = false and
\* emailSent = false, and no message was accepted
C36_FailedDelivery ==
    /\ orch.result.returned
    /\ orch.failedAt = "deliver"
    /\ Len(hist.deliveries) = 1
    /\ ~orch.result.success
    /\ ~ReportsEmailSent(orch.result)
    /\ hist.sent = <<>>

\* a run whose delivery call has returned reports the messageId of the call
C36_Witness ==
    /\ orch.result.returned
    /\ orch.result.success
    /\ ReportsEmailSent(orch.result)
    /\ Len(hist.sent) = 1
    /\ orch.result.messageId = "m-1"

(***************************************************************************)
(* The embedding invocation of SpecEmbed with calls that end: every        *)
(* embedding call that is out returns or fails, and so does the upsert     *)
(* call.  Nothing is assumed of the read of the batch blob.                *)
(***************************************************************************)
EmbeddingReturns(k) == \E j \in 1..CONCURRENCY : EmbedOk(k, j) \/ EmbedFail(k, j)

UpsertReturns(k) == UpsertOk(k) \/ UpsertFail(k)

SpecEmbedFair ==
    /\ InitEmbed
    /\ [][NextEmbed]_vars
    /\ WF_vars(EmbeddingReturns("i1"))
    /\ WF_vars(UpsertReturns("i1"))

\* at most MAX_RETRIES x min(N, MAX_ARTICLES) embedding calls for a batch of N
\* documents, and an invocation that is over has completed after its single
\* upsert or has thrown before or in it
CallsBounded ==
    \A k \in Invs :
       /\ (HasRead(k) /\ ~Unparsable(k) /\ inv[k].error # GetObjectError)
             => inv[k].calls <= MAX_RETRIES * Min(BatchSize(k), MAX_ARTICLES)
       /\ ~HasRead(k) => inv[k].calls = 0
       /\ Len(inv[k].upserts) <= 1
       /\ inv[k].pc = "done" => Len(inv[k].upserts) = 1
       /\ inv[k].pc = "failed" <=> inv[k].error # ""

InitTools ==
    /\ bucket = <<>>
    /\ now = 0
    /\ run = [r \in Runs |-> RunIdle]
    /\ index = {}
    /\ inv = [k \in Invs |-> InvIdle]
    /\ orch = OrchIdle
    /\ rag = RagIdle
    /\ hist = HistInit
    /\ loop = LoopIdle

NextTools == LoopStep(AssistantMessages)

SpecTools == InitTools /\ [][NextTools]_vars

\* the model has answered 10 times, every time with a toolUse block, and the
\* blocks of the last answer have been gone through
ToolsInAllIterations ==
    /\ Len(loop.answers) = 10
    /\ \A i \in 1..10 : loop.answers[i]
    /\ loop.pc # "tool"

\* at most 10 model calls; an answer without a toolUse block is the last one,
\* and the loop has returned on it with the toolCalls made so far
BoundedLoop ==
    /\ loop.modelCalls <= 10
    /\ Len(loop.answers) <= loop.modelCalls
    /\ \A i \in 1..Len(loop.answers) :
          ~loop.answers[i] => /\ i = Len(loop.answers)
                              /\ loop.pc = "returned"
                              /\ ~loop.result.forced
                              /\ loop.result.toolCalls = loop.toolCalls

(***************************************************************************)
(* C38 as stated: executeWithFunctionCalling makes at most 10 model calls, *)
(* returns as soon as the model answers without a toolUse block, and has   *)
(* thrown the IntegrationError 'Maximum iterations (10) reached' when the  *)
(* model has requested tools in all 10 iterations.                         *)
(***************************************************************************)
C38_Original ==
    /\ BoundedLoop
    /\ ToolsInAllIterations
          => loop.pc = "threw" /\ loop.error = IntegrationError("Maximum iterations (10) reached")

\* the part that holds: after 10 answers with tools the loop has thrown, or it
\* has returned the forced completion on a repeated pinecone_search
C38_ThrownOrForced ==
    /\ BoundedLoop
    /\ ToolsInAllIterations
          => \/ loop.pc = "threw" /\ loop.error = IntegrationError("Maximum iterations (10) reached")
             \/ loop.pc = "returned" /\ loop.result.forced

\* the loop has thrown after 10 model calls that all requested tools
C38_ThrownAtCap ==
    /\ ToolsInAllIterations
    /\ loop.modelCalls = 10
    /\ loop.pc = "threw"
    /\ loop.error = IntegrationError("Maximum iterations (10) reached")

\* the model has requested tools in all 10 iterations, its 10th answer has
\* repeated a pinecone_search call, and the loop has returned
C38_ReturnedAtCap ==
    /\ ToolsInAllIterations
    /\ loop.modelCalls = 10
    /\ loop.pc = "returned"
    /\ loop.result.forced
    /\ loop.error = NoError

(***************************************************************************)
(* C39 as stated: every entry of the toolCalls list that                   *)
(* executeWithFunctionCalling has returned is a call of                    *)
(* toolExecutor.executeTool with that name and input which has returned    *)
(* that result; a send_email entry is returned only when the email tool    *)
(* has been executed.                                                      *)
(***************************************************************************)
C39_ToolCallsAreReal ==
    loop.result.returned =>
       \A i \in 1..Len(loop.result.toolCalls) :
          /\ InSeq(loop.result.toolCalls[i], loop.executed)
          /\ loop.result.toolCalls[i].name = "send_email"
                => \E j \in 1..Len(loop.executed) : loop.executed[j].name = "send_email"

\* the loop has returned a send_email entry while executeTool was called for
\* the search only
C39_FakeEmail ==
    /\ loop.result.returned
    /\ loop.result.forced
    /\ \E i \in 1..Len(loop.result.toolCalls) : loop.result.toolCalls[i].name = "send_email"
    /\ Len(loop.executed) = 1
    /\ loop.executed[1].name = "pinecone_search"
    /\ \A h \in 1..Len(loop.toolCallHistory) : loop.toolCallHistory[h].name # "send_email"

=============================================================================
